---------------------------- MODULE Spec2Model ----------------------------
(***************************************************************************)
(* Model of the terminal subsystem of aiwindows_client                     *)
(* (src/aiwindows_client/ui/terminal_widget.py): the tab container         *)
(* TerminalTabWidget, its sessions (WindowsTerminalCanvas with a ConPTY    *)
(* process, a ConPTYReader thread and a screen), the Qt event queue that   *)
(* carries the reader's signals to the UI thread, and the shell processes. *)
(*                                                                         *)
(* Execution contexts: one UI thread (uiPc says which handler it is in;    *)
(* "idle" means it is back in the event loop) and one reader thread per    *)
(* started session (readerPc).  A UI handler is one action, except where   *)
(* it blocks while other threads run: WindowsTerminalCanvas.stop waits in  *)
(* QThread.wait and in PtyProcess.terminate, so _close_tab is cut at these *)
(* points, and paintEvent is cut into its begin and its end so that an     *)
(* access to the screen while it is being painted is a visible step.       *)
(***************************************************************************)
EXTENDS Integers, Sequences, FiniteSets, TLC

(* ----------------------------- bounds ---------------------------------- *)
\* sessions ever created by one TerminalTabWidget
MaxSessions == 2
\* chunks of output the shells produce in one run
MaxOut == 2
\* writes recorded per PTY
MaxKeys == 1
\* resize events delivered in one run
MaxResizes == 1
\* granularity of the clock that runs while QThread.wait blocks
TickMs == 500
\* size of the screen the feeds are tried on, and tokens fed to it
ScrLines == 2
ScrCols == 3
MaxFeed == 7
\* deliveries _on_data handles for the screen
MaxData == 3
\* HighlightFrame objects a HighlightManager creates
MaxFrames == 3
\* entries the history of a file browser grows to
MaxHistory == 4
\* hours the clock of the model synchronisation runs
MaxClock == 3
\* the ChatWorker objects a ChatWidget creates
MaxChats == 4

(* ------------------------- program constants --------------------------- *)
\* reader.wait(1000)
WaitTimeoutMs == 1000
\* ModelSyncManager.CACHE_DURATION = timedelta(hours=1)
CacheDurationHours == 1
\* WindowsTerminalCanvas.__init__(cols=120, rows=30)
DefaultCols == 120
DefaultRows == 30
\* resizeEvent: max(80, ...), max(24, ...)
MinCols == 80
MinRows == 24
\* QFontMetrics of the terminal font (horizontalAdvance("W"), height())
CharWidth == 9
CharHeight == 18

Sids == 1..MaxSessions
Shells == {"powershell.exe", "cmd.exe"}
ExitCodes == {0, 1}
\* pixel sizes the windowing system reports: one below the minimum, one
\* above, and one that gives the dimensions the canvas is constructed with
PixelSizes ==
    {[w |-> 640, h |-> 400], [w |-> 900, h |-> 540], [w |-> 1080, h |-> 540]}
\* size of a widget that has not been laid out yet
InitialPixels == [w |-> 100, h |-> 30]

VARIABLES
    hasWinpty,    \* HAS_WINPTY: the winpty import succeeded
    timerPending, \* the QTimer.singleShot(100, _add_terminal) has not fired yet
    aborted,      \* an exception left a slot: PyQt6 has aborted the application
    tabs,         \* QTabWidget pages in tab order: sequence of session ids
    current,      \* QTabWidget.currentIndex, 1-based; 0 when there is no tab
    nextId,       \* id the next WindowsTerminalCanvas gets
    shellOf,      \* shell a session was asked to start ("none": not created)
    proc,         \* "none" (self.pty is None), "alive", "dead"
    exitStatus,   \* pty.exitstatus: <<>> for None, <<code>> once exited
    readerPc,     \* "none", "loop", "read", "exit", "done"
    running,      \* ConPTYReader._running
    ptyOut,       \* output of the shell not yet read from the PTY
    ptyIn,        \* what was written to the PTY (sequence of byte sequences)
    ptyDims,      \* window size of the PTY, <<rows, cols>>
    dims,         \* canvas <<rows, cols>>
    screenDims,   \* pyte screen <<lines, columns>>
    readLog,      \* history: non-empty data returned by pty.read, in order
    fedLog,       \* history: text fed to the screen by _on_data, in order
    finishedLog,  \* history: exit codes emitted with the finished signal
    dirty,        \* update() was called and no paint has happened since
    evq,          \* queued signal deliveries for the UI thread, FIFO
    uiPc,         \* handler the UI thread is in
    uiIdx,        \* tab index _close_tab was called with
    uiSid,        \* session the current multi-step handler works on
    waitMs,       \* time spent in reader.wait so far
    resizes,      \* resize events delivered so far
    pixels,       \* canvas width() and height()
    lastKey,      \* history: the key event keyPressEvent handled last (ev)
                  \* and the parity of the number of events handled (n)
    scr,          \* a pyte screen: lines, columns, buffer, cursor
    scrLog,       \* history: what was fed to scr since it was constructed
    stream,       \* the pyte.Stream of scr: its parser's position
    dataLog,      \* history: the deliveries _on_data handled for scr
    ptyOf,        \* canvas.pty: the PtyProcess object of a session (0: None)
    readerOf,     \* canvas.reader: the ConPTYReader object (0: None)
    readerPty,    \* reader.pty of each ConPTYReader object (0: not created)
    parentWidget, \* ShortcutManager.parent_widget is set
    shortcuts,    \* ShortcutManager._shortcuts: key sequence -> ShortcutInfo
    qtShortcuts,  \* keys of ShortcutManager._qt_shortcuts
    blocked,      \* ShortcutManager._blocked
    smLast,       \* history: the last ShortcutManager call, what it returned
                  \* and the callback it invoked; n is the parity of the
                  \* number of calls
    frames,       \* HighlightManager._frames in dict order: name and frame
    activeName,   \* HighlightManager._active_name: <<>> for None, <<name>>
    frameWidget,  \* HighlightFrame._content_widget of each frame object
                  \* ("none": the frame object does not exist)
    frameActive,  \* HighlightFrame._is_active of each frame object
    fsDirs,       \* the directories that exist in the file system
    currentPath,  \* WindowsFileBrowser.current_path
    history,      \* WindowsFileBrowser._history
    historyIndex, \* WindowsFileBrowser._history_index (from 0; -1: none)
    apiClient,    \* ModelSyncManager.api_client is set
    cache,        \* ModelSyncManager._cache
    cacheFile,    \* models_cache.json: absent, unreadable, or a saved cache
    clock,        \* datetime.now(), in hours
    syncLast,     \* history: the last sync call (force, its return value);
                  \* n is the parity of the number of calls
    inputEnabled, \* ChatWidget.input_field.isEnabled()
    sendEnabled,  \* ChatWidget.send_btn.isEnabled()
    inputText,    \* ChatWidget.input_field.get_text()
    workers,      \* the ChatWorker objects in the order of their creation:
                  \* where run is (pc) and the signals it has emitted
    chatQ,        \* queued finished and error signals for the UI thread
    chatHandled,  \* history: the workers whose signal a slot has handled
    messages      \* ChatWidget.messages: the role of each message

vars == <<hasWinpty, timerPending, aborted, tabs, current, nextId,
          shellOf, proc, exitStatus, readerPc, running, ptyOut, ptyIn,
          ptyDims, dims, screenDims, readLog, fedLog, finishedLog,
          dirty, evq, uiPc, uiIdx, uiSid, waitMs, resizes, pixels, lastKey,
          scr, scrLog, stream, dataLog, ptyOf, readerOf, readerPty,
          parentWidget, shortcuts, qtShortcuts, blocked, smLast,
          frames, activeName, frameWidget, frameActive,
          fsDirs, currentPath, history, historyIndex,
          apiClient, cache, cacheFile, clock, syncLast,
          inputEnabled, sendEnabled, inputText, workers, chatQ, chatHandled,
          messages>>

\* variable groups, for UNCHANGED
bindVars == <<ptyOf, readerOf, readerPty>>
tabVars == <<tabs, current, nextId, shellOf, bindVars>>
procVars == <<proc, exitStatus, ptyOut>>
readerVars == <<readerPc, running, readLog, finishedLog>>
sizeVars == <<ptyDims, dims, screenDims, resizes, pixels>>
uiVars == <<uiPc, uiIdx, uiSid, waitMs>>
globalVars == <<hasWinpty, timerPending, aborted>>
keyVars == <<lastKey>>
\* everything but the screen under test
terminalVars == <<globalVars, tabVars, procVars, readerVars, sizeVars, uiVars,
                  keyVars, ptyIn, fedLog, dirty, evq>>
screenVars == <<scr, scrLog>>
dataVars == <<stream, dataLog>>
\* the other components of the application
shortcutVars == <<parentWidget, shortcuts, qtShortcuts, blocked, smLast>>
highlightVars == <<frames, activeName, frameWidget, frameActive>>
browserVars == <<fsDirs, currentPath, history, historyIndex>>
syncVars == <<apiClient, cache, cacheFile, clock, syncLast>>
chatVars == <<inputEnabled, sendEnabled, inputText, workers, chatQ,
              chatHandled, messages>>
appVars == <<dataVars, shortcutVars, highlightVars, browserVars, syncVars,
             chatVars>>
\* everything but one component
exceptShortcuts == <<terminalVars, screenVars, dataVars, highlightVars,
                     browserVars, syncVars, chatVars>>
exceptHighlight == <<terminalVars, screenVars, dataVars, shortcutVars,
                     browserVars, syncVars, chatVars>>
exceptBrowser == <<terminalVars, screenVars, dataVars, shortcutVars,
                   highlightVars, syncVars, chatVars>>
exceptSync == <<terminalVars, screenVars, dataVars, shortcutVars,
                highlightVars, browserVars, chatVars>>
\* everything but the chat and the abort of the application
exceptChat == <<hasWinpty, timerPending, tabVars, procVars, readerVars,
                sizeVars, uiVars, keyVars, ptyIn, fedLog, dirty, evq,
                screenVars, dataVars, shortcutVars, highlightVars,
                browserVars, syncVars>>

(* ------------------------------ helpers -------------------------------- *)
Max(a, b) == IF a >= b THEN a ELSE b
Min(a, b) == IF a <= b THEN a ELSE b

RemoveAt(seq, i) ==
    [k \in 1..(Len(seq) - 1) |-> IF k < i THEN seq[k] ELSE seq[k + 1]]

IsPrefix(p, q) == Len(p) <= Len(q) /\ SubSeq(q, 1, Len(p)) = p

\* QTabWidget.removeTab: the current index after page i of n is removed
\* (QTabBar's default SelectRightTab behaviour)
CurrentAfterRemove(cur, i, n) ==
    IF i < cur THEN cur - 1
    ELSE IF i > cur THEN cur
    ELSE IF n = 1 THEN 0
    ELSE IF i = n THEN n - 1
    ELSE i

(* --------------------------- data conversion --------------------------- *)
\* Data is a tagged token <<type, k>>: k = 0 is the empty string, k > 0 is
\* the k-th chunk the shell wrote.  PtyProcess.read returns str.
StrData(k) == <<"str", k>>
IsEmptyData(d) == d[2] = 0
\* run: data.encode() if isinstance(data, str) else data
Encode(d) == IF d[1] = "str" THEN <<"bytes", d[2]>> ELSE d
\* _on_data: data.decode("utf-8", errors="replace")
Decode(b) == <<"str", b[2]>>

\* run: exit_code = self.pty.exitstatus or 0
ExitCodeDropped(st) == 0

ExitCodeOr0(st) == IF st = <<>> THEN 0 ELSE IF st[1] = 0 THEN 0 ELSE st[1]

\* Qt resolves the AutoConnection of reader.data_ready / reader.finished to
\* the canvas slots when the signal is emitted: queued when the emitting
\* thread is not the thread the receiver lives in, direct otherwise.
ConnectionKind(emitterThread, receiverThread) ==
    IF emitterThread = receiverThread THEN "direct" ELSE "queued"

\* number of chunks the shell of s has written so far
Produced(s) == Len(readLog[s]) + Len(ptyOut[s])

\* number of chunks all shells have written so far
RECURSIVE SumProduced(_)
SumProduced(n) == IF n = 0 THEN 0 ELSE Produced(n) + SumProduced(n - 1)
TotalProduced == SumProduced(MaxSessions)

\* the canvas that has keyboard focus and is visible: the current page
HasCurrent == current >= 1 /\ current <= Len(tabs)
CurrentSid == tabs[current]

UiIdle == uiPc = "idle" /\ ~aborted

\* Dimensions are <<rows, cols>> everywhere in the model; the calls that
\* pass them take their arguments in these orders:
\* pyte.Screen(columns, lines), as in pyte.Screen(cols, rows)
ScreenDimsOf(columns, lines) == <<lines, columns>>
\* Screen.resize(lines, columns), as in self.screen.resize(new_rows, new_cols)
ScreenResizeDims(lines, columns) == <<lines, columns>>
\* PtyProcess.spawn(dimensions=(rows, cols)) and pty.setwinsize(rows, cols)
PtyDimsOf(rows, cols) == <<rows, cols>>

(* --------------------------- the pyte screen --------------------------- *)
\* The canvas keeps its Screen Buffer in a pyte.Screen fed through a
\* pyte.Stream (__init__), and paintEvent walks screen.buffer as a list of
\* rows of Char: the list-of-rows screen of pyte.  The Stream turns the fed
\* text into calls on the screen; a token below is one such call: a
\* printable character (draw), "\r" (carriage_return), "\n" (linefeed),
\* ESC [ n m (select_graphic_rendition).
\*
\* Values that the code tests with isinstance carry their type.
StrVal(v) == <<"str", v>>
IsInt(v) == v[1] = "int"

\* pyte's Char: the character and its foreground colour; pyte keeps colours
\* as names ("default", "red", ...)
DefaultChar == [data |-> " ", fg |-> StrVal("default")]
BlankLine(columns) == [c \in 1..columns |-> DefaultChar]

\* pyte.Screen(columns, lines): blank buffer, cursor at home (x: column,
\* y: line, both from 0), default attributes
Screen(columns, lines) ==
    [lines |-> lines, columns |-> columns,
     buffer |-> [r \in 1..lines |-> BlankLine(columns)],
     x |-> 0, y |-> 0, fg |-> StrVal("default")]

\* Screen.carriage_return
CarriageReturnKeepsColumn(s) == s

CarriageReturn(s) == [s EXCEPT !.x = 0]

\* Screen.ensure_bounds
EnsureBounds(s) ==
    [s EXCEPT !.x = Min(Max(0, s.x), s.columns - 1),
              !.y = Min(Max(0, s.y), s.lines - 1)]

\* Screen.index: on the bottom line the top line is popped and a blank line
\* is inserted at the bottom, otherwise the cursor moves down
IndexWithoutScroll(s) == s

Index(s) ==
    IF s.y = s.lines - 1
    THEN [s EXCEPT !.buffer = Append(Tail(s.buffer), BlankLine(s.columns))]
    ELSE [s EXCEPT !.y = Min(s.y + 1, s.lines - 1)]

\* Screen.linefeed (LNM is not set by default: no carriage return)
Linefeed(s) == EnsureBounds(Index(s))

\* Screen.draw(char) with DECAWM set (the default): a cursor that stands
\* past the last column wraps first; the character is written with the
\* cursor's attributes and the cursor moves right, without a bound check
DrawWrapsAtOnce(s, ch) ==
    LET t == [s EXCEPT !.buffer[s.y + 1][s.x + 1] = [data |-> ch, fg |-> s.fg],
                       !.x = s.x + 1]
    IN IF t.x = t.columns THEN Linefeed(CarriageReturn(t)) ELSE t

Draw(s, ch) ==
    LET t == IF s.x = s.columns THEN Linefeed(CarriageReturn(s)) ELSE s
    IN [t EXCEPT !.buffer[t.y + 1][t.x + 1] = [data |-> ch, fg |-> t.fg],
                 !.x = t.x + 1]

\* pyte.graphics.FG: SGR code -> colour name
FgName(n) ==
    CASE n = 30 -> "black" [] n = 31 -> "red" [] n = 32 -> "green"
      [] n = 33 -> "brown" [] n = 34 -> "blue" [] n = 35 -> "magenta"
      [] n = 36 -> "cyan" [] n = 37 -> "white" [] OTHER -> "default"

\* Screen.select_graphic_rendition(n): 0 resets, 30..37 and 39 set the
\* foreground; other codes do not touch it
SelectGraphicRendition(s, n) ==
    IF n = 0 \/ n \in 30..37 \/ n = 39
    THEN [s EXCEPT !.fg = StrVal(FgName(n))]
    ELSE s

\* Screen.resize(lines, columns): lines are added at the bottom or taken
\* off the top, columns are added or trimmed at the right; then the
\* margins are reset and DECOM is reset, which homes the cursor
ResizeKeepsCursor(s, lines, columns) ==
    LET diff == s.lines - lines
        rows == IF diff < 0
                THEN s.buffer \o [r \in 1..(0 - diff) |-> BlankLine(s.columns)]
                ELSE SubSeq(s.buffer, diff + 1, s.lines)
        fit(line) == [c \in 1..columns |->
                        IF c <= s.columns THEN line[c] ELSE DefaultChar]
    IN [s EXCEPT !.lines = lines, !.columns = columns,
                 !.buffer = [r \in 1..lines |-> fit(rows[r])]]

Resize(s, lines, columns) ==
    LET diff == s.lines - lines
        rows == IF diff < 0
                THEN s.buffer \o [r \in 1..(0 - diff) |-> BlankLine(s.columns)]
                ELSE SubSeq(s.buffer, diff + 1, s.lines)
        fit(line) == [c \in 1..columns |->
                        IF c <= s.columns THEN line[c] ELSE DefaultChar]
    IN [s EXCEPT !.lines = lines, !.columns = columns,
                 !.buffer = [r \in 1..lines |-> fit(rows[r])],
                 !.x = 0, !.y = 0]

\* Stream.feed of one token
FeedToken(s, tok) ==
    CASE tok[1] = "char" -> Draw(s, tok[2])
      [] tok[1] = "cr" -> CarriageReturn(s)
      [] tok[1] = "lf" -> Linefeed(s)
      [] tok[1] = "sgr" -> SelectGraphicRendition(s, tok[2])

\* Stream.feed of a text, token by token
RECURSIVE FeedAll(_, _)
FeedAll(s, toks) ==
    IF toks = <<>> THEN s ELSE FeedAll(FeedToken(s, Head(toks)), Tail(toks))

(* ----------------------- bytes, text and the Stream -------------------- *)
\* A chunk of data is a sequence of bytes (0..255), a text a sequence of
\* code points.
\*
\* data.decode("utf-8", errors="replace"), for one- and two-byte forms: a
\* byte below 128 is its own code point, a lead byte 0xC2..0xDF followed by
\* a continuation byte 0x80..0xBF is one code point, and any other byte
\* (a lone continuation byte, a lead byte without its continuation, 0xFF)
\* is replaced by U+FFFD; decoding never raises
RECURSIVE DecodeReplace(_)
DecodeReplace(bs) ==
    IF bs = <<>> THEN <<>>
    ELSE IF Head(bs) < 128 THEN <<Head(bs)>> \o DecodeReplace(Tail(bs))
    ELSE IF /\ Head(bs) \in 194..223
            /\ Len(bs) >= 2
            /\ bs[2] \in 128..191
         THEN <<(Head(bs) - 192) * 64 + (bs[2] - 128)>>
              \o DecodeReplace(SubSeq(bs, 3, Len(bs)))
    ELSE <<65533>> \o DecodeReplace(Tail(bs))

\* the character of a code point, as a cell of the screen holds it
Chr(cp) ==
    CASE cp = 97 -> "a" [] cp = 98 -> "b" [] cp = 49 -> "1" [] cp = 51 -> "3"
      [] cp = 109 -> "m" [] cp = 122 -> "z" [] cp = 233 -> "e-acute"
      [] cp = 65533 -> "U+FFFD" [] OTHER -> "?"

\* pyte.Stream(self.screen): the parser starts outside any sequence
StreamInit == [mode |-> "ground", params |-> <<>>, cur |-> 0]

\* One character through the parser of the Stream:
\* <<the parser afterwards, the calls on the screen it dispatches>>.
\* ESC opens an escape sequence and ESC [ a control sequence, whose
\* parameters are collected until its final character; "m" dispatches
\* select_graphic_rendition, an unrecognised escape or final character
\* dispatches nothing.  A sequence cut by the end of the text stays open.
StreamChar(p, cp) ==
    CASE p.mode = "ground" ->
           IF cp = 27 THEN <<[p EXCEPT !.mode = "escape"], <<>>>>
           ELSE IF cp = 13 THEN <<p, << <<"cr">> >> >>
           ELSE IF cp = 10 THEN <<p, << <<"lf">> >> >>
           ELSE <<p, << <<"char", Chr(cp)>> >> >>
      [] p.mode = "escape" ->
           IF cp = 91
           THEN <<[mode |-> "csi", params |-> <<>>, cur |-> 0], <<>>>>
           ELSE <<StreamInit, <<>>>>
      [] p.mode = "csi" ->
           IF cp \in 48..57
           THEN <<[p EXCEPT !.cur = Min(p.cur * 10 + (cp - 48), 9999)], <<>>>>
           ELSE IF cp = 59
           THEN <<[p EXCEPT !.params = Append(@, p.cur), !.cur = 0], <<>>>>
           ELSE IF cp = 109
           THEN <<StreamInit,
                  [k \in 1..(Len(p.params) + 1) |->
                     <<"sgr", Append(p.params, p.cur)[k]>>]>>
           ELSE <<StreamInit, <<>>>>

\* stream.feed(text) that returns: [p: the parser, s: the screen,
\* toks: the calls made on the screen]
RECURSIVE StreamFeed(_, _, _)
StreamFeed(p, s, text) ==
    IF text = <<>> THEN [p |-> p, s |-> s, toks |-> <<>>]
    ELSE LET step == StreamChar(p, Head(text))
             rest == StreamFeed(step[1], FeedAll(s, step[2]), Tail(text))
         IN [rest EXCEPT !.toks = step[2] \o @]

\* _on_data: whether an exception raised inside the try block leaves the
\* handler (except Exception catches it and logs it)
ExceptionPropagates(raised) == raised

ExceptionLeavesOnData(raised) == FALSE

(* --------------------------- ShortcutManager --------------------------- *)
\* (src/aiwindows_client/core/shortcut_manager.py)
\* ShortcutContext, without BROWSER, FILE_BROWSER and EDITOR
Contexts == {"GLOBAL", "TERMINAL", "CHAT"}
\* key sequences as callers write them
RawKeys == {"Ctrl+T", "ctrl+t", "F1"}

\* _normalize_key: QKeySequence(key_sequence).toString() gives the portable
\* spelling of a key sequence
NormalizeKey(k) == IF k = "ctrl+t" THEN "Ctrl+T" ELSE k
NormKeys == {NormalizeKey(k) : k \in RawKeys}

\* ShortcutInfo (every shortcut is registered with the default category and
\* stays enabled: enable_shortcut is not called);
\* NoShortcut stands for a key that is not in the dict
ShortcutInfo(k, callback, context, description) ==
    [key_sequence |-> k, callback |-> callback, context |-> context,
     description |-> description, enabled |-> TRUE]
NoShortcut ==
    [key_sequence |-> "", callback |-> "none", context |-> "none",
     description |-> "", enabled |-> FALSE]

\* self._shortcuts.get(key_sequence)
ShortcutsGet(reg, k) == IF k \in DOMAIN reg THEN reg[k] ELSE NoShortcut

\* register: the conflict test.
\* key_sequence in self._shortcuts and not replace, and then
\* existing.context == context
ConflictInAnyContext(existing, context, replace) ==
    existing # NoShortcut /\ ~replace

RegisterConflict(existing, context, replace) ==
    existing # NoShortcut /\ ~replace /\ existing.context = context

\* handle_key_event: the key sequence built from a key event, "" for a
\* pure modifier key (the event is skipped)
KeySequenceOf(ev) ==
    IF ev.key \in {"Control", "Shift", "Alt", "Meta"} THEN ""
    ELSE NormalizeKey(IF ev.ctrl THEN "Ctrl+" \o ev.key ELSE ev.key)

\* handle_key_event: the callback it invokes for the key sequence k coming
\* from a widget of context widget_context ("none": no callback)
KeyEventCallback(reg, blk, k, widget_context) ==
    LET info == ShortcutsGet(reg, k)
    IN IF /\ k # ""
          /\ info # NoShortcut /\ info.enabled /\ k \notin blk
          /\ info.context # "GLOBAL"
          /\ widget_context # "None" /\ info.context = widget_context
       THEN info.callback
       ELSE "none"

(* --------------------------- HighlightManager -------------------------- *)
\* (src/aiwindows_client/ui/highlight_frame.py)
\* position of name in _frames, 0 when it is not a key
RECURSIVE FramePos(_, _, _)
FramePos(fs, name, k) ==
    IF k > Len(fs) THEN 0
    ELSE IF fs[k].name = name THEN k
    ELSE FramePos(fs, name, k + 1)

\* self._frames[name] = frame: a new key goes to the end of the dict, an
\* existing key keeps its place and gets the new value
FramesSet(fs, name, frame) ==
    IF FramePos(fs, name, 1) = 0
    THEN Append(fs, [name |-> name, frame |-> frame])
    ELSE [fs EXCEPT ![FramePos(fs, name, 1)].frame = frame]

\* Python truth of _active_name: None and "" are false
Truthy(an) == an # <<>> /\ an[1] # ""

\* self._frames[self._active_name].set_active(False), guarded by
\* `self._active_name and self._active_name in self._frames`
DeactivatePrevious(fs, an, act) ==
    IF Truthy(an) /\ FramePos(fs, an[1], 1) # 0
    THEN [act EXCEPT ![fs[FramePos(fs, an[1], 1)].frame] = FALSE]
    ELSE act

\* HighlightManager.set_active(name): <<_active_name, _is_active of the
\* frames>> afterwards
SetActiveResult(fs, an, act, name) ==
    IF an = <<name>> THEN <<an, act>>
    ELSE LET off == DeactivatePrevious(fs, an, act)
             pos == FramePos(fs, name, 1)
         IN IF pos # 0
            THEN <<(<<name>>), [off EXCEPT ![fs[pos].frame] = TRUE]>>
            ELSE <<(<<>>), off>>

\* HighlightManager.clear_active()
ClearActiveResult(fs, an, act) == <<(<<>>), DeactivatePrevious(fs, an, act)>>

\* content.isAncestorOf(widget)
IsAncestorOf(content, widget) == content = "w1" /\ widget = "w1child"

\* set_active_by_widget: position of the first frame whose content is the
\* widget or an ancestor of it, 0 when there is none
RECURSIVE FirstFrameOf(_, _, _, _)
FirstFrameOf(fs, content, widget, k) ==
    IF k > Len(fs) THEN 0
    ELSE IF \/ content[fs[k].frame] = widget
            \/ IsAncestorOf(content[fs[k].frame], widget)
         THEN k
    ELSE FirstFrameOf(fs, content, widget, k + 1)

(* -------------------------- WindowsFileBrowser ------------------------- *)
\* (src/aiwindows_client/ui/file_browser.py)
\* str(Path.home())
HomeDir == "/h"
\* the paths of a small tree, and one that never exists
Paths == {"/", "/h", "/h/a", "/x"}
\* str(Path(path).parent)
ParentOf(path) ==
    CASE path = "/h/a" -> "/h" [] path = "/h" -> "/" [] OTHER -> "/"

\* self.path_edit.text().strip()
Strip(text) ==
    CASE text = " /h/a " -> "/h/a" [] text = "  " -> "" [] OTHER -> text

\* _navigate_to(path) with current_path = cur, _history = hist and
\* _history_index = idx: a path that does not exist changes nothing (a
\* warning is shown); otherwise the path becomes current and, unless it is
\* the history's entry at the index, the history is cut after the index
\* and the path appended
NavigateTo(cur, hist, idx, dirs, path) ==
    IF path \notin dirs THEN [path |-> cur, history |-> hist, index |-> idx]
    ELSE IF hist = <<>> \/ hist[idx + 1] # path
    THEN [path |-> path,
          history |-> Append(SubSeq(hist, 1, idx + 1), path),
          index |-> idx + 1]
    ELSE [path |-> path, history |-> hist, index |-> idx]

\* _go_back: self._history_index -= 1, before the navigation
BackIndex(idx) == idx - 1

(* --------------------------- ModelSyncManager -------------------------- *)
\* (src/aiwindows_client/core/model_sync.py)
\* a sync_timestamp: the empty string, an ISO time (t, in hours) or a
\* string that is not an ISO time
NoTimestamp == [kind |-> "empty", t |-> 0]
IsoTime(t) == [kind |-> "iso", t |-> t]
Garbage == [kind |-> "garbage", t |-> 0]

\* ModelCache(): the default cache; the categories follow the models and
\* the version is always "2.1"
ModelCache(tier, models, stamp) ==
    [tier |-> tier, models |-> models, categories |-> Len(models),
     sync_timestamp |-> stamp]

\* _load_cache: the cache saved in the file, the default cache when there
\* is no file or it cannot be read
LoadCache(file) ==
    IF file.state = "saved" THEN file.content
    ELSE ModelCache("guest", <<>>, NoTimestamp)

\* the cache file: absent (before the first save), unreadable (a save
\* that failed half way), or as _save_cache wrote it
NoFile == [state |-> "none", content |-> ModelCache("guest", <<>>, NoTimestamp)]
CorruptFile ==
    [state |-> "corrupt", content |-> ModelCache("guest", <<>>, NoTimestamp)]
SavedFile(c) == [state |-> "saved", content |-> c]

\* _needs_sync at time now
NeedsSync(c, now) ==
    IF c.sync_timestamp.kind = "empty" THEN TRUE
    ELSE IF c.sync_timestamp.kind = "iso"
    THEN now - c.sync_timestamp.t > CacheDurationHours
    ELSE TRUE

\* what `await self.api_client.get("/client/models/sync")` can give: an
\* exception, None, a dict without "models", a dict whose models cannot be
\* turned into ModelInfo (an entry lacks a field), and well-formed dicts
\* with and without tier and sync_timestamp
Responses ==
    {[kind |-> "raise", models |-> <<>>, tier |-> "absent", stamp |-> "absent"],
     [kind |-> "none", models |-> <<>>, tier |-> "absent", stamp |-> "absent"],
     [kind |-> "nomodels", models |-> <<>>, tier |-> "pro", stamp |-> "absent"],
     [kind |-> "dict", models |-> <<"m1", "malformed">>, tier |-> "pro",
      stamp |-> "absent"],
     [kind |-> "dict", models |-> <<"m1">>, tier |-> "pro", stamp |-> "absent"],
     [kind |-> "dict", models |-> <<"m1", "m2">>, tier |-> "absent",
      stamp |-> "garbage"],
     [kind |-> "dict", models |-> <<>>, tier |-> "absent", stamp |-> "now"]}

\* `response and "models" in response`
ValidResponse(r) == r.kind = "dict"

\* [ModelInfo(**m) for m in response["models"]] raises TypeError
ParseFails(r) == \E k \in 1..Len(r.models) : r.models[k] = "malformed"

\* the ModelCache built from a response at time now
CacheFrom(r, now) ==
    ModelCache(IF r.tier = "absent" THEN "guest" ELSE r.tier,
               r.models,
               IF r.stamp = "garbage" THEN Garbage ELSE IsoTime(now))

(* -------------------------------- Init --------------------------------- *)
\* State after TerminalTabWidget.__init__: _setup_ui has built an empty
\* QTabWidget and the single-shot timer for the first terminal is pending.
Init ==
    /\ hasWinpty \in BOOLEAN
    /\ timerPending = TRUE
    /\ aborted = FALSE
    /\ tabs = <<>>
    /\ current = 0
    /\ nextId = 1
    /\ shellOf = [s \in Sids |-> "none"]
    /\ proc = [s \in Sids |-> "none"]
    /\ exitStatus = [s \in Sids |-> <<>>]
    /\ readerPc = [s \in Sids |-> "none"]
    /\ running = [s \in Sids |-> FALSE]
    /\ ptyOut = [s \in Sids |-> <<>>]
    /\ ptyIn = [s \in Sids |-> <<>>]
    /\ ptyDims = [s \in Sids |-> <<>>]
    /\ dims = [s \in Sids |-> <<DefaultRows, DefaultCols>>]
    /\ screenDims = [s \in Sids |-> ScreenDimsOf(DefaultCols, DefaultRows)]
    /\ readLog = [s \in Sids |-> <<>>]
    /\ fedLog = [s \in Sids |-> <<>>]
    /\ finishedLog = [s \in Sids |-> <<>>]
    /\ dirty = [s \in Sids |-> FALSE]
    /\ evq = <<>>
    /\ uiPc = "idle"
    /\ uiIdx = 0
    /\ uiSid = 0
    /\ waitMs = 0
    /\ resizes = 0
    /\ pixels = [s \in Sids |-> InitialPixels]
    /\ lastKey = [ev |-> [key |-> "none", ctrl |-> FALSE, text |-> <<>>],
                  n |-> 0]
    /\ scr = Screen(ScrCols, ScrLines)
    /\ scrLog = <<>>
    /\ stream = StreamInit
    /\ fsDirs = {"/", HomeDir, "/h/a"}
    /\ currentPath = NavigateTo(HomeDir, <<>>, -1, {HomeDir}, HomeDir).path
    /\ history = NavigateTo(HomeDir, <<>>, -1, {HomeDir}, HomeDir).history
    /\ historyIndex = NavigateTo(HomeDir, <<>>, -1, {HomeDir}, HomeDir).index
    /\ apiClient = FALSE
    /\ cacheFile = NoFile
    /\ cache = LoadCache(NoFile)
    /\ clock = 0
    /\ syncLast = [force |-> FALSE, ret |-> TRUE, n |-> 0]
    /\ frames = <<>>
    /\ activeName = <<>>
    /\ frameWidget = [f \in 1..MaxFrames |-> "none"]
    /\ frameActive = [f \in 1..MaxFrames |-> FALSE]
    /\ parentWidget = FALSE
    /\ shortcuts = [k \in NormKeys |-> NoShortcut]
    /\ qtShortcuts = {}
    /\ blocked = {}
    /\ smLast = [op |-> "none", key |-> "", callback |-> "none",
                 context |-> "none", description |-> "", replace |-> FALSE,
                 ret |-> FALSE, called |-> "none", n |-> 0]
    /\ ptyOf = [s \in Sids |-> 0]
    /\ readerOf = [s \in Sids |-> 0]
    /\ readerPty = [r \in Sids |-> 0]
    /\ dataLog = <<>>
    /\ inputEnabled = TRUE
    /\ sendEnabled = TRUE
    /\ inputText = ""
    /\ workers = <<>>
    /\ chatQ = <<>>
    /\ chatHandled = {}
    /\ messages = <<>>

(* ------------------------ TerminalTabWidget ---------------------------- *)
\* PtyProcess.spawn and ConPTYReader(...) each return a new object: objects
\* are numbered in the order of their creation
RECURSIVE CountObjects(_, _)
CountObjects(f, n) ==
    IF n = 0 THEN 0
    ELSE (IF f[n] # 0 THEN 1 ELSE 0) + CountObjects(f, n - 1)
NewObject(f) == CountObjects(f, MaxSessions) + 1

\* ConPTYReader.__init__(pty_process): self.pty = pty_process, called by
\* start with the PtyProcess it has just spawned.
\*
\* WindowsTerminalCanvas.start as called by _add_terminal: without winpty it
\* returns at once; a failing PtyProcess.spawn is caught and logged.  Both
\* leave pty and reader None.  On success the PTY has the canvas's
\* dimensions and the reader thread is started with _running = True.
ReaderBindsFirstPty(pty) == 1

ReaderBinds(pty) == pty

StartOutcome(s, spawnOk) ==
    LET started == hasWinpty /\ spawnOk
        newPty == NewObject(ptyOf)
        newReader == NewObject(readerOf)
    IN
    /\ ptyOf' = [ptyOf EXCEPT ![s] = IF started THEN newPty ELSE 0]
    /\ readerOf' = [readerOf EXCEPT ![s] = IF started THEN newReader ELSE 0]
    /\ readerPty' = IF started
                    THEN [readerPty EXCEPT ![newReader] = ReaderBinds(newPty)]
                    ELSE readerPty
    /\ proc' = [proc EXCEPT ![s] = IF started THEN "alive" ELSE "none"]
    /\ ptyDims' = [ptyDims EXCEPT ![s] =
                     IF started THEN PtyDimsOf(dims[s][1], dims[s][2]) ELSE <<>>]
    /\ readerPc' = [readerPc EXCEPT ![s] = IF started THEN "loop" ELSE "none"]
    /\ running' = [running EXCEPT ![s] = started]

\* _add_terminal(shell) on the tab sequence `base`: a new canvas becomes the
\* last page and the current one, then start(shell=shell) runs.
AddTerminal(base, shell, spawnOk) ==
    /\ nextId <= MaxSessions
    /\ tabs' = Append(base, nextId)
    /\ current' = Len(base) + 1
    /\ nextId' = nextId + 1
    /\ shellOf' = [shellOf EXCEPT ![nextId] = shell]
    /\ StartOutcome(nextId, spawnOk)

\* QTimer.singleShot(100, self._add_terminal): called with no argument
TimerFired ==
    /\ UiIdle
    /\ timerPending
    /\ timerPending' = FALSE
    /\ \E spawnOk \in BOOLEAN : AddTerminal(tabs, "powershell.exe", spawnOk)
    /\ UNCHANGED <<hasWinpty, aborted, exitStatus, ptyOut, ptyIn, dims,
                   screenDims, resizes, pixels, readLog, fedLog, finishedLog, dirty,
                   evq, uiVars>>
    /\ UNCHANGED <<keyVars, screenVars, appVars>>

\* cmd_btn.clicked -> lambda: self._add_terminal("cmd.exe")
CmdClicked ==
    /\ UiIdle
    /\ \E spawnOk \in BOOLEAN : AddTerminal(tabs, "cmd.exe", spawnOk)
    /\ UNCHANGED <<globalVars, exitStatus, ptyOut, ptyIn, dims, screenDims,
                   resizes, pixels, readLog, fedLog, finishedLog, dirty, evq,
                   uiVars>>
    /\ UNCHANGED <<keyVars, screenVars, appVars>>

\* new_tab_btn.clicked -> self._add_terminal: clicked carries checked (a
\* bool) and _add_terminal accepts one positional argument, so the slot runs
\* as _add_terminal(False).  The canvas is constructed, then shell.lower()
\* raises AttributeError before addTab; no excepthook is installed, so PyQt6
\* ends the application on the exception that leaves the slot.
PlusClicked ==
    /\ UiIdle
    /\ aborted' = TRUE
    /\ UNCHANGED <<hasWinpty, timerPending, tabVars, procVars, readerVars,
                   sizeVars, ptyIn, fedLog, dirty, evq, uiVars>>
    /\ UNCHANGED <<keyVars, screenVars, appVars>>

\* the user selects page i (QTabWidget.setCurrentIndex through the tab bar)
SelectTab(i) ==
    /\ UiIdle
    /\ i \in 1..Len(tabs)
    /\ i # current
    /\ current' = i
    /\ UNCHANGED <<globalVars, tabs, nextId, shellOf, bindVars, procVars, readerVars,
                   sizeVars, ptyIn, fedLog, dirty, evq, uiVars>>
    /\ UNCHANGED <<keyVars, screenVars, appVars>>

(* ----------------------- WindowsTerminalCanvas ------------------------- *)
\* keyPressEvent: the bytes a key event sends, as the sequence of writes it
\* makes (<<>>: no write).  Bytes are numbers; ev.text is a byte sequence.
CtrlMap(key) ==
    CASE key = "Key_C" -> <<3>>
      [] key = "Key_D" -> <<4>>
      [] key = "Key_Z" -> <<26>>
      [] key = "Key_L" -> <<12>>
      [] OTHER -> <<>>

KeyMap(key) ==
    CASE key = "Key_Return" -> <<13>>
      [] key = "Key_Enter" -> <<13>>
      [] key = "Key_Backspace" -> <<127>>
      [] key = "Key_Tab" -> <<9>>
      [] key = "Key_Escape" -> <<27>>
      [] key = "Key_Up" -> <<27, 91, 65>>
      [] key = "Key_Down" -> <<27, 91, 66>>
      [] key = "Key_Right" -> <<27, 91, 67>>
      [] key = "Key_Left" -> <<27, 91, 68>>
      [] key = "Key_Home" -> <<27, 91, 72>>
      [] key = "Key_End" -> <<27, 91, 70>>
      [] key = "Key_PageUp" -> <<27, 91, 53, 126>>
      [] key = "Key_PageDown" -> <<27, 91, 54, 126>>
      [] key = "Key_Insert" -> <<27, 91, 50, 126>>
      [] key = "Key_Delete" -> <<27, 91, 51, 126>>
      [] OTHER -> <<>>

KeyWritesTextFirst(ev) ==
    IF ev.ctrl /\ CtrlMap(ev.key) # <<>> THEN <<CtrlMap(ev.key)>>
    ELSE IF ev.text # <<>> THEN <<ev.text>>
    ELSE IF KeyMap(ev.key) # <<>> THEN <<KeyMap(ev.key)>>
    ELSE <<>>

KeyWrites(ev) ==
    IF ev.ctrl /\ CtrlMap(ev.key) # <<>> THEN <<CtrlMap(ev.key)>>
    ELSE IF KeyMap(ev.key) # <<>> THEN <<KeyMap(ev.key)>>
    ELSE IF ev.text # <<>> THEN <<ev.text>>
    ELSE <<>>

\* key events the windowing system delivers in this specification
KeyEvents ==
    { [key |-> "Key_C", ctrl |-> TRUE, text |-> <<3>>],
      [key |-> "Key_X", ctrl |-> FALSE, text |-> <<120>>] }

\* all kinds of key events: every key of key_map (with the text Qt reports
\* for it), the four Ctrl combinations, the same letters without Ctrl, Ctrl
\* with a key of key_map and with another letter, a plain character and a
\* modifier key without text
KeyMapKeys ==
    {"Key_Return", "Key_Enter", "Key_Backspace", "Key_Tab", "Key_Escape",
     "Key_Up", "Key_Down", "Key_Right", "Key_Left", "Key_Home", "Key_End",
     "Key_PageUp", "Key_PageDown", "Key_Insert", "Key_Delete"}

KeyText(key) ==
    CASE key \in {"Key_Return", "Key_Enter"} -> <<13>>
      [] key = "Key_Backspace" -> <<8>>
      [] key = "Key_Tab" -> <<9>>
      [] key = "Key_Escape" -> <<27>>
      [] key = "Key_Delete" -> <<127>>
      [] OTHER -> <<>>

AllKeyEvents ==
    { [key |-> k, ctrl |-> FALSE, text |-> KeyText(k)] : k \in KeyMapKeys }
    \cup { [key |-> "Key_C", ctrl |-> TRUE, text |-> <<3>>],
           [key |-> "Key_D", ctrl |-> TRUE, text |-> <<4>>],
           [key |-> "Key_Z", ctrl |-> TRUE, text |-> <<26>>],
           [key |-> "Key_L", ctrl |-> TRUE, text |-> <<12>>],
           [key |-> "Key_C", ctrl |-> FALSE, text |-> <<99>>],
           [key |-> "Key_A", ctrl |-> TRUE, text |-> <<1>>],
           [key |-> "Key_Return", ctrl |-> TRUE, text |-> <<13>>],
           [key |-> "Key_X", ctrl |-> FALSE, text |-> <<120>>],
           [key |-> "Key_Shift", ctrl |-> FALSE, text |-> <<>>] }

\* _write on the canvas of session s: only its own, alive PTY is written
PtyWriteAll(s, data) ==
    [t \in Sids |-> IF proc[t] = "alive" THEN Append(ptyIn[t], data)
                    ELSE ptyIn[t]]

PtyWriteUnguarded(s, data) == [ptyIn EXCEPT ![s] = Append(@, data)]

PtyWrite(s, data) ==
    IF proc[s] # "none" /\ proc[s] = "alive"
    THEN [ptyIn EXCEPT ![s] = Append(@, data)]
    ELSE ptyIn

\* a key event goes to the widget with keyboard focus, the current page
KeyPress(ev) ==
    /\ UiIdle
    /\ HasCurrent
    /\ Len(ptyIn[CurrentSid]) < MaxKeys
    /\ lastKey' = [ev |-> ev, n |-> 1 - lastKey.n]
    /\ ptyIn' = IF KeyWrites(ev) = <<>> THEN ptyIn
                ELSE PtyWrite(CurrentSid, KeyWrites(ev)[1])
    /\ UNCHANGED <<globalVars, tabVars, procVars, readerVars, sizeVars,
                   fedLog, dirty, evq, uiVars>>
    /\ UNCHANGED <<screenVars, appVars>>

\* resizeEvent of the visible canvas for a new pixel size: new_rows, new_cols
NewDimsUnclamped(px) == <<px.h \div CharHeight, px.w \div CharWidth>>

NewDims(px) ==
    <<Max(MinRows, px.h \div CharHeight), Max(MinCols, px.w \div CharWidth)>>

ResizeEvent(px) ==
    /\ UiIdle
    /\ HasCurrent
    /\ resizes < MaxResizes
    /\ px # pixels[CurrentSid]
    /\ resizes' = resizes + 1
    /\ pixels' = [pixels EXCEPT ![CurrentSid] = px]
    /\ LET s == CurrentSid
           nd == NewDims(px)
       IN IF nd # dims[s]
          THEN /\ dims' = [dims EXCEPT ![s] = nd]
               /\ screenDims' = [screenDims EXCEPT
                    ![s] = ScreenResizeDims(nd[1], nd[2])]
               /\ ptyDims' = IF proc[s] = "alive"
                             THEN [ptyDims EXCEPT ![s] = PtyDimsOf(nd[1], nd[2])]
                             ELSE ptyDims
          ELSE UNCHANGED <<dims, screenDims, ptyDims>>
    /\ UNCHANGED <<globalVars, tabVars, procVars, readerVars, ptyIn, fedLog,
                   dirty, evq, uiVars>>
    /\ UNCHANGED <<keyVars, screenVars, appVars>>

\* paintEvent of the visible canvas, delivered after update(): it reads the
\* screen from its begin to its end, on the UI thread
PaintBegin ==
    /\ UiIdle
    /\ HasCurrent
    /\ dirty[CurrentSid]
    /\ uiPc' = "paint"
    /\ uiSid' = CurrentSid
    /\ UNCHANGED <<globalVars, tabVars, procVars, readerVars, sizeVars, ptyIn,
                   fedLog, dirty, evq, uiIdx, waitMs>>
    /\ UNCHANGED <<keyVars, screenVars, appVars>>

PaintEnd ==
    /\ uiPc = "paint"
    /\ ~aborted
    /\ dirty' = [dirty EXCEPT ![uiSid] = FALSE]
    /\ uiPc' = "idle"
    /\ uiSid' = 0
    /\ UNCHANGED <<globalVars, tabVars, procVars, readerVars, sizeVars, ptyIn,
                   fedLog, evq, uiIdx, waitMs>>
    /\ UNCHANGED <<keyVars, screenVars, appVars>>

\* _on_data(data) on the canvas of s: decode, feed the screen, update()
FeedEffect(s, data) ==
    /\ fedLog' = [fedLog EXCEPT ![s] = Append(@, Decode(data))]
    /\ dirty' = [dirty EXCEPT ![s] = TRUE]

\* how reader.data_ready reaches _on_data: the reader emits in its own
\* thread, the canvas lives in the UI thread
DirectConnection == "direct"

DataReadyConnection == ConnectionKind("reader", "ui")

\* the UI event loop takes queued slot calls in the order they were posted:
\* <<the call delivered next, the calls left>>
DequeueNewest(q) == <<q[Len(q)], SubSeq(q, 1, Len(q) - 1)>>

Dequeue(q) == <<Head(q), Tail(q)>>

\* the UI event loop delivers a queued data_ready to _on_data
OnData ==
    /\ UiIdle
    /\ evq # <<>>
    /\ Dequeue(evq)[1].sig = "data"
    /\ FeedEffect(Dequeue(evq)[1].sid, Dequeue(evq)[1].data)
    /\ evq' = Dequeue(evq)[2]
    /\ UNCHANGED <<globalVars, tabVars, procVars, readerVars, sizeVars, ptyIn,
                   uiVars>>
    /\ UNCHANGED <<keyVars, screenVars, appVars>>

\* the UI event loop delivers a queued finished to _on_finished,
\* which only logs the exit code
OnFinished ==
    /\ UiIdle
    /\ evq # <<>>
    /\ Dequeue(evq)[1].sig = "finished"
    /\ evq' = Dequeue(evq)[2]
    /\ UNCHANGED <<globalVars, tabVars, procVars, readerVars, sizeVars, ptyIn,
                   fedLog, dirty, uiVars>>
    /\ UNCHANGED <<keyVars, screenVars, appVars>>

(* ------------------- _close_tab / WindowsTerminalCanvas.stop ----------- *)
\* _close_tab(index), up to the first blocking call: widget = tabs.widget(
\* index); stop() calls reader.stop() when there is a reader, which clears
\* _running, and then enters reader.wait(1000).  Without a reader stop goes
\* on to the liveness test of the PTY.
StopSignalSkipped(s) ==
    /\ running' = running
    /\ uiPc' = "term"

StopSignal(s) ==
    IF readerPc[s] # "none"
    THEN /\ running' = [running EXCEPT ![s] = FALSE]
         /\ uiPc' = "wait"
    ELSE /\ running' = running
         /\ uiPc' = "term"

CloseBegin(i) ==
    /\ UiIdle
    /\ i \in 1..Len(tabs)
    \* the replacement of the last tab needs a free session id
    /\ Len(tabs) = 1 => nextId <= MaxSessions
    /\ uiIdx' = i
    /\ uiSid' = tabs[i]
    /\ waitMs' = 0
    /\ StopSignal(tabs[i])
    /\ UNCHANGED <<globalVars, tabVars, procVars, readerPc, readLog,
                   finishedLog, sizeVars, ptyIn, fedLog, dirty, evq>>
    /\ UNCHANGED <<keyVars, screenVars, appVars>>

\* time passes while the UI thread is blocked in reader.wait(1000)
WaitTick ==
    /\ uiPc = "wait"
    /\ ~aborted
    /\ readerPc[uiSid] # "done"
    /\ waitMs < WaitTimeoutMs
    /\ waitMs' = Min(waitMs + TickMs, WaitTimeoutMs)
    /\ UNCHANGED <<globalVars, tabVars, procVars, readerVars, sizeVars, ptyIn,
                   fedLog, dirty, evq, uiPc, uiIdx, uiSid>>
    /\ UNCHANGED <<keyVars, screenVars, appVars>>

\* reader.wait(1000) returns: True when run has returned, False when the
\* timeout has passed
WaitReturn ==
    /\ uiPc = "wait"
    /\ ~aborted
    /\ readerPc[uiSid] = "done" \/ waitMs >= WaitTimeoutMs
    /\ uiPc' = "term"
    /\ UNCHANGED <<globalVars, tabVars, procVars, readerVars, sizeVars, ptyIn,
                   fedLog, dirty, evq, uiIdx, uiSid, waitMs>>
    /\ UNCHANGED <<keyVars, screenVars, appVars>>

\* if self.pty and self.pty.isalive(): self.pty.terminate(force=True);
\* then stop returns
CloseTerminate ==
    /\ uiPc = "term"
    /\ ~aborted
    /\ IF proc[uiSid] = "alive"
       THEN \E c \in ExitCodes \ {0} :
              /\ proc' = [proc EXCEPT ![uiSid] = "dead"]
              /\ exitStatus' = [exitStatus EXCEPT ![uiSid] = <<c>>]
       ELSE UNCHANGED <<proc, exitStatus>>
    /\ uiPc' = "remove"
    /\ UNCHANGED <<globalVars, tabVars, ptyOut, readerVars, sizeVars, ptyIn,
                   fedLog, dirty, evq, uiIdx, uiSid, waitMs>>
    /\ UNCHANGED <<keyVars, screenVars, appVars>>

\* self.tabs.removeTab(index); if self.tabs.count() == 0: self._add_terminal()
\* (the default argument of _add_terminal is "powershell.exe")
ReplacementShellCmd == "cmd.exe"

ReplacementShell == "powershell.exe"

NeverReplaced(base) == FALSE

NeedsReplacement(base) == Len(base) = 0

CloseRemove ==
    /\ uiPc = "remove"
    /\ ~aborted
    /\ LET base == RemoveAt(tabs, uiIdx) IN
       IF NeedsReplacement(base)
       THEN \E spawnOk \in BOOLEAN : AddTerminal(base, ReplacementShell, spawnOk)
       ELSE /\ tabs' = base
            /\ current' = CurrentAfterRemove(current, uiIdx, Len(tabs))
            /\ UNCHANGED <<nextId, shellOf, bindVars, proc, ptyDims, readerPc,
                           running>>
    /\ uiPc' = "idle"
    /\ uiIdx' = 0
    /\ uiSid' = 0
    /\ waitMs' = 0
    /\ UNCHANGED <<globalVars, exitStatus, ptyOut, readLog, finishedLog,
                   dims, screenDims, resizes, pixels, ptyIn, fedLog, dirty,
                   evq>>
    /\ UNCHANGED <<keyVars, screenVars, appVars>>

(* ---------------------------- ConPTYReader.run ------------------------- *)
\* while self._running and self.pty.isalive():
LoopCheck(s) ==
    /\ ~aborted
    /\ readerPc[s] = "loop"
    /\ IF running[s] /\ proc[s] = "alive"
       THEN readerPc' = [readerPc EXCEPT ![s] = "read"]
       ELSE readerPc' = [readerPc EXCEPT ![s] = "exit"]
    /\ UNCHANGED <<globalVars, tabVars, procVars, running, readLog,
                   finishedLog, sizeVars, ptyIn, fedLog, dirty, evq, uiVars>>
    /\ UNCHANGED <<keyVars, screenVars, appVars>>

\* self.data_ready.emit(...): queued for the UI thread, or the slot runs at
\* once in the emitting thread
EmitData(s, bytes) ==
    IF DataReadyConnection = "queued"
    THEN /\ evq' = Append(evq, [sig |-> "data", sid |-> s, data |-> bytes])
         /\ UNCHANGED <<fedLog, dirty>>
    ELSE /\ evq' = evq
         /\ FeedEffect(s, bytes)

\* what a returning pty.read(4096) can deliver: the oldest unread output,
\* or the empty string while the shell is alive and has written nothing
ReadResults(s) ==
    IF ptyOut[s] # <<>> THEN {Head(ptyOut[s])}
    ELSE IF proc[s] = "alive" THEN {StrData(0)}
    ELSE {}

\* data = self.pty.read(4096); if data: self.data_ready.emit(...)
HasDataUnchecked(data) == TRUE

HasData(data) == ~IsEmptyData(data)

ReadReturn(s) ==
    /\ ~aborted
    /\ readerPc[s] = "read"
    /\ \E data \in ReadResults(s) :
         /\ ptyOut' = [ptyOut EXCEPT ![s] = IF @ = <<>> THEN @ ELSE Tail(@)]
         /\ IF HasData(data)
            THEN /\ readLog' = [readLog EXCEPT ![s] = Append(@, data)]
                 /\ EmitData(s, Encode(data))
            ELSE UNCHANGED <<readLog, evq, fedLog, dirty>>
    /\ readerPc' = [readerPc EXCEPT ![s] = "loop"]
    /\ UNCHANGED <<globalVars, tabVars, proc, exitStatus, running,
                   finishedLog, sizeVars, ptyIn, uiVars>>
    /\ UNCHANGED <<keyVars, screenVars, appVars>>

\* pty.read raises (EOFError: the process is gone and the PTY is drained):
\* except Exception: ...; break
ReadRaise(s) ==
    /\ ~aborted
    /\ readerPc[s] = "read"
    /\ ptyOut[s] = <<>>
    /\ proc[s] = "dead"
    /\ readerPc' = [readerPc EXCEPT ![s] = "exit"]
    /\ UNCHANGED <<globalVars, tabVars, procVars, running, readLog,
                   finishedLog, sizeVars, ptyIn, fedLog, dirty, evq, uiVars>>
    /\ UNCHANGED <<keyVars, screenVars, appVars>>

\* exit_code = self.pty.exitstatus or 0; self.finished.emit(exit_code);
\* run returns
FinishedEmittedTwice(s, code) == <<code, code>>

FinishedEmissions(s, code) == <<code>>

EmitFinished(s) ==
    /\ ~aborted
    /\ readerPc[s] = "exit"
    /\ LET code == ExitCodeOr0(exitStatus[s])
           emitted == FinishedEmissions(s, code) IN
       /\ finishedLog' = [finishedLog EXCEPT ![s] = @ \o emitted]
       /\ evq' = evq \o [k \in 1..Len(emitted) |->
                            [sig |-> "finished", sid |-> s, data |-> <<"int", emitted[k]>>]]
    /\ readerPc' = [readerPc EXCEPT ![s] = "done"]
    /\ UNCHANGED <<globalVars, tabVars, procVars, running, readLog, sizeVars, ptyIn, fedLog, dirty, uiVars>>
    /\ UNCHANGED <<keyVars, screenVars, appVars>>

(* ------------------------------ the shells ----------------------------- *)
\* the shell of s writes its next chunk of output to the PTY
ShellOutput(s) ==
    /\ ~aborted
    /\ proc[s] = "alive"
    /\ TotalProduced < MaxOut
    /\ ptyOut' = [ptyOut EXCEPT ![s] = Append(@, StrData(Produced(s) + 1))]
    /\ UNCHANGED <<globalVars, tabVars, proc, exitStatus, readerVars,
                   sizeVars, ptyIn, fedLog, dirty, evq, uiVars>>
    /\ UNCHANGED <<keyVars, screenVars, appVars>>

\* the shell of s exits on its own with exit code c
ProcExit(s, c) ==
    /\ ~aborted
    /\ proc[s] = "alive"
    /\ proc' = [proc EXCEPT ![s] = "dead"]
    /\ exitStatus' = [exitStatus EXCEPT ![s] = <<c>>]
    /\ UNCHANGED <<globalVars, tabVars, ptyOut, readerVars, sizeVars, ptyIn,
                   fedLog, dirty, evq, uiVars>>
    /\ UNCHANGED <<keyVars, screenVars, appVars>>

(* ------------------------------ the system ----------------------------- *)
\* the reader threads
ReaderStep ==
    \/ \E s \in Sids : LoopCheck(s)
    \/ \E s \in Sids : ReadReturn(s)
    \/ \E s \in Sids : ReadRaise(s)
    \/ \E s \in Sids : EmitFinished(s)

\* Sessions are opened and closed while their shells write output and
\* exit: the tab container, teardown, the readers and the delivery of their
\* signals to the UI thread.
Next ==
    \/ TimerFired
    \/ CmdClicked
    \/ PlusClicked
    \/ PaintBegin
    \/ PaintEnd
    \/ OnData
    \/ OnFinished
    \/ \E i \in 1..MaxSessions : CloseBegin(i)
    \/ WaitTick
    \/ WaitReturn
    \/ CloseTerminate
    \/ CloseRemove
    \/ ReaderStep
    \/ \E s \in Sids : ShellOutput(s)
    \/ \E s \in Sids, c \in ExitCodes : ProcExit(s, c)

Spec == Init /\ [][Next]_vars

\* Keyboard input: sessions are opened, selected and closed and their
\* shells exit while key events arrive; the shells write no output.
NextInput ==
    \/ TimerFired
    \/ CmdClicked
    \/ \E i \in 1..MaxSessions : SelectTab(i)
    \/ \E ev \in KeyEvents : KeyPress(ev)
    \/ OnFinished
    \/ \E i \in 1..MaxSessions : CloseBegin(i)
    \/ WaitTick
    \/ WaitReturn
    \/ CloseTerminate
    \/ CloseRemove
    \/ ReaderStep
    \/ \E s \in Sids, c \in ExitCodes : ProcExit(s, c)

SpecInput == Init /\ [][NextInput]_vars

\* Painting: the sessions' output is fed to their screens while the visible
\* canvas is painted and resized.
NextPaint ==
    \/ TimerFired
    \/ CmdClicked
    \/ \E i \in 1..MaxSessions : SelectTab(i)
    \/ \E px \in PixelSizes : ResizeEvent(px)
    \/ PaintBegin
    \/ PaintEnd
    \/ OnData
    \/ OnFinished
    \/ ReaderStep
    \/ \E s \in Sids : ShellOutput(s)
    \/ \E s \in Sids, c \in ExitCodes : ProcExit(s, c)

SpecPaint == Init /\ [][NextPaint]_vars

\* The input mapping: one session takes key events of every kind and resize
\* events while its shell runs and after it has exited, and is closed.
NextKeys ==
    \/ TimerFired
    \/ \E ev \in AllKeyEvents : KeyPress(ev)
    \/ \E px \in PixelSizes : ResizeEvent(px)
    \/ \E i \in 1..MaxSessions : CloseBegin(i)
    \/ WaitTick
    \/ WaitReturn
    \/ CloseTerminate
    \/ CloseRemove
    \/ \E s \in Sids, c \in ExitCodes : ProcExit(s, c)

SpecKeys == Init /\ [][NextKeys]_vars

(* ------------------------- the screen on its own ----------------------- *)
\* printable characters, and the sizes a resize can ask for
Glyphs == {"a", "b"}
ResizeTargets ==
    {<<ScrLines - 1, ScrCols - 1>>, <<ScrLines, ScrCols>>,
     <<ScrLines + 1, ScrCols + 1>>}

\* _on_data: self.stream.feed(text), one token of the text at a time
ScreenFeed(tok) ==
    /\ Len(scrLog) < MaxFeed
    /\ scr' = FeedToken(scr, tok)
    /\ scrLog' = Append(scrLog, tok)
    /\ UNCHANGED <<terminalVars, appVars>>

\* resizeEvent: self.screen.resize(new_rows, new_cols), called only with
\* dimensions that differ from the current ones
ScreenResize(lines, columns) ==
    /\ Len(scrLog) < MaxFeed
    /\ <<lines, columns>> # <<scr.lines, scr.columns>>
    /\ scr' = Resize(scr, lines, columns)
    /\ scrLog' = Append(scrLog, <<"resize", lines, columns>>)
    /\ UNCHANGED <<terminalVars, appVars>>

\* Text and resizes: printable characters, carriage returns and line feeds
\* are fed to one screen and it is resized, in any order.
TextTokens == {<<"char", g>> : g \in Glyphs} \cup {<<"cr">>, <<"lf">>}

NextScreen ==
    \/ \E tok \in TextTokens : ScreenFeed(tok)
    \/ \E sz \in ResizeTargets : ScreenResize(sz[1], sz[2])

SpecScreen == Init /\ [][NextScreen]_vars

\* WindowsTerminalCanvas.COLORS_16
Colors16 ==
    <<"#0c0c0c", "#c50f1f", "#13a10e", "#c19c00",
      "#0037da", "#881798", "#3a96dd", "#cccccc",
      "#767676", "#e74856", "#16c60c", "#f9f1a5",
      "#3b78ff", "#b4009e", "#61d6d6", "#f2f2f2">>

\* paintEvent: the pen colour a cell's character is drawn with.
\* fg = char.fg if char.fg != "default" else "white"; COLORS_16[fg] when fg
\* is an int below 16, "#cccccc" otherwise
PaintFg(char) ==
    LET fg == IF char.fg # StrVal("default") THEN char.fg ELSE StrVal("white")
    IN IF IsInt(fg) /\ fg[2] < 16 THEN Colors16[fg[2] + 1]
       ELSE IF fg = StrVal("white") THEN "#cccccc"
       ELSE "#cccccc"

\* Colours: printable characters and Select Graphic Rendition sequences
\* (red, blue, reset) are fed to one screen.
ColourTokens ==
    {<<"char", g>> : g \in Glyphs} \cup {<<"sgr", 31>>, <<"sgr", 34>>, <<"sgr", 0>>}

NextColour == \E tok \in ColourTokens : ScreenFeed(tok)

SpecColour == Init /\ [][NextColour]_vars

(* --------------------------- data deliveries --------------------------- *)
\* chunks a reader can deliver: plain text, a two-byte character, a lead
\* byte without its continuation, a lone continuation byte, an invalid
\* byte, CR LF, a complete SGR sequence, a control sequence cut in two, an
\* unrecognised control sequence, an escape followed by an invalid byte
DataChunks ==
    {<<97>>, <<195, 169>>, <<195>>, <<169, 98>>, <<255>>, <<13, 10>>,
     <<27, 91, 51, 49, 109>>, <<27, 91, 51>>, <<49, 109>>,
     <<27, 91, 122>>, <<27, 255>>}

\* _on_data(data) for the canvas of scr.  The text is decoded and fed to
\* the Stream.  pyte may raise while it handles a character of the text
\* (raiseAt, 0: it does not): the calls for the characters before it have
\* been made, the rest of the text is dropped, update() is skipped, and
\* the parser is left where it stood or starts over.  The except clause
\* logs the exception.
OnDataBytes(data, raiseAt) ==
    LET text == DecodeReplace(data)
        raised == raiseAt # 0
        fed == StreamFeed(stream, scr,
                          IF raised THEN SubSeq(text, 1, raiseAt - 1)
                          ELSE text)
    IN /\ UiIdle
       /\ Len(dataLog) < MaxData
       /\ raiseAt <= Len(text)
       /\ scr' = fed.s
       /\ scrLog' = scrLog \o fed.toks
       /\ \E after \in (IF raised THEN {fed.p, StreamInit} ELSE {fed.p}) :
             stream' = after
       /\ dataLog' = Append(dataLog, [data |-> data, text |-> text,
                                      raised |-> raised,
                                      update |-> ~raised])
       /\ aborted' = ExceptionLeavesOnData(raised)
       /\ UNCHANGED <<hasWinpty, timerPending, tabVars, procVars, readerVars,
                      sizeVars, uiVars, keyVars, ptyIn, fedLog, dirty, evq>>
       /\ UNCHANGED <<shortcutVars, highlightVars, browserVars, syncVars,
                    chatVars>>

\* Untrusted data: chunks of bytes are delivered to one canvas, and pyte
\* may raise on any character.
NextData ==
    \E data \in DataChunks : \E raiseAt \in 0..Len(DecodeReplace(data)) :
        OnDataBytes(data, raiseAt)

SpecData == Init /\ [][NextData]_vars

(* --------------------------- ShortcutManager --------------------------- *)
\* the record of one call
SmCall(op, k, callback, context, description, replace, ret, called) ==
    [op |-> op, key |-> k, callback |-> callback, context |-> context,
     description |-> description, replace |-> replace, ret |-> ret,
     called |-> called, n |-> 1 - smLast.n]

\* register(key_sequence, callback, context, description, replace=replace)
Register(raw, callback, context, description, replace) ==
    LET k == NormalizeKey(raw)
        conflict == RegisterConflict(shortcuts[k], context, replace)
    IN /\ shortcuts' = IF conflict THEN shortcuts
                       ELSE [shortcuts EXCEPT ![k] =
                               ShortcutInfo(k, callback, context, description)]
       /\ qtShortcuts' = IF ~conflict /\ context = "GLOBAL" /\ parentWidget
                         THEN qtShortcuts \cup {k}
                         ELSE qtShortcuts
       /\ smLast' = SmCall("register", k, callback, context, description,
                           replace, ~conflict, "none")
       /\ UNCHANGED <<parentWidget, blocked>>
       /\ UNCHANGED exceptShortcuts

\* unregister(key_sequence)
Unregister(raw) ==
    LET k == NormalizeKey(raw)
        found == shortcuts[k] # NoShortcut
    IN /\ shortcuts' = [shortcuts EXCEPT ![k] = NoShortcut]
       /\ qtShortcuts' = IF found THEN qtShortcuts \ {k} ELSE qtShortcuts
       /\ smLast' = SmCall("unregister", k, "none", "none", "", FALSE, found,
                           "none")
       /\ UNCHANGED <<parentWidget, blocked>>
       /\ UNCHANGED exceptShortcuts

\* handle_key_event(event, widget_context); the callback returns or raises
\* (callbackOk), and True is returned only when it returned
HandleKeyEvent(ev, widget_context, callbackOk) ==
    LET k == KeySequenceOf(ev)
        called == KeyEventCallback(shortcuts, blocked, k, widget_context)
    IN /\ smLast' = SmCall("key", k, "none", widget_context, "", FALSE,
                           called # "none" /\ callbackOk, called)
       /\ UNCHANGED <<parentWidget, shortcuts, qtShortcuts, blocked>>
       /\ UNCHANGED exceptShortcuts

\* get_shortcut_manager(parent) on the existing manager: the parent widget
\* is set when there was none
SetParentWidget ==
    /\ ~parentWidget
    /\ parentWidget' = TRUE
    /\ smLast' = SmCall("parent", "", "none", "none", "", FALSE, FALSE, "none")
    /\ UNCHANGED <<shortcuts, qtShortcuts, blocked>>
    /\ UNCHANGED exceptShortcuts

\* block_shortcut(key_sequence) and unblock_shortcut(key_sequence)
BlockShortcut(raw, block) ==
    /\ blocked' = IF block THEN blocked \cup {NormalizeKey(raw)}
                  ELSE blocked \ {NormalizeKey(raw)}
    /\ smLast' = SmCall(IF block THEN "block" ELSE "unblock",
                        NormalizeKey(raw), "none", "none", "", FALSE, FALSE,
                        "none")
    /\ UNCHANGED <<parentWidget, shortcuts, qtShortcuts>>
    /\ UNCHANGED exceptShortcuts

\* key events: Ctrl+T, F1, Ctrl+K and the Control key itself
ShortcutKeyEvents ==
    {[key |-> "T", ctrl |-> TRUE], [key |-> "F1", ctrl |-> FALSE],
     [key |-> "K", ctrl |-> TRUE], [key |-> "Control", ctrl |-> TRUE]}

\* the description each callback is registered with
DescriptionOf(callback) == IF callback = "f" THEN "open" ELSE ""

\* Shortcuts: callers register, unregister and block shortcuts while keys
\* are pressed in terminal and chat widgets.
NextShortcuts ==
    \/ \E raw \in RawKeys, cb \in {"f", "g"}, c \in Contexts,
          replace \in BOOLEAN :
          Register(raw, cb, c, DescriptionOf(cb), replace)
    \/ \E raw \in RawKeys : Unregister(raw)
    \/ \E ev \in ShortcutKeyEvents, c \in {"TERMINAL", "CHAT", "None"},
          ok \in BOOLEAN : HandleKeyEvent(ev, c, ok)
    \/ \E raw \in RawKeys, b \in BOOLEAN : BlockShortcut(raw, b)
    \/ SetParentWidget

SpecShortcuts == Init /\ [][NextShortcuts]_vars

(* --------------------------- HighlightManager -------------------------- *)
\* frame objects created so far
FramesCreated == Cardinality({f \in 1..MaxFrames : frameWidget[f] # "none"})

\* add_widget(widget, name): a new, inactive HighlightFrame around the
\* widget is stored under the name
AddWidget(widget, name) ==
    /\ FramesCreated < MaxFrames
    /\ frameWidget' = [frameWidget EXCEPT ![FramesCreated + 1] = widget]
    /\ frames' = FramesSet(frames, name, FramesCreated + 1)
    /\ UNCHANGED <<activeName, frameActive>>
    /\ UNCHANGED exceptHighlight

\* set_active(name)
SetActive(name) ==
    /\ activeName' = SetActiveResult(frames, activeName, frameActive, name)[1]
    /\ frameActive' = SetActiveResult(frames, activeName, frameActive, name)[2]
    /\ UNCHANGED <<frames, frameWidget>>
    /\ UNCHANGED exceptHighlight

\* set_active_by_widget(widget): set_active of the first matching frame's
\* name, clear_active() when no frame matches
SetActiveByWidget(widget) ==
    LET pos == FirstFrameOf(frames, frameWidget, widget, 1)
        res == IF pos # 0
               THEN SetActiveResult(frames, activeName, frameActive,
                                    frames[pos].name)
               ELSE ClearActiveResult(frames, activeName, frameActive)
    IN /\ activeName' = res[1]
       /\ frameActive' = res[2]
       /\ UNCHANGED <<frames, frameWidget>>
       /\ UNCHANGED exceptHighlight

\* clear_active()
ClearActive ==
    /\ activeName' = ClearActiveResult(frames, activeName, frameActive)[1]
    /\ frameActive' = ClearActiveResult(frames, activeName, frameActive)[2]
    /\ UNCHANGED <<frames, frameWidget>>
    /\ UNCHANGED exceptHighlight

\* Highlighting: widgets are wrapped under names and the active one is
\* switched by name and by focused widget.
NextHighlight ==
    \/ \E w \in {"w1", "w2"}, name \in {"terminal", "chat"} :
          AddWidget(w, name)
    \/ \E name \in {"terminal", "chat", "files"} : SetActive(name)
    \/ \E w \in {"w1", "w2", "w1child", "w3"} : SetActiveByWidget(w)
    \/ ClearActive

SpecHighlight == Init /\ [][NextHighlight]_vars

(* -------------------------- WindowsFileBrowser ------------------------- *)
\* the browser after nav, the result of a _navigate_to
Navigated(nav) ==
    /\ Len(nav.history) <= MaxHistory
    /\ currentPath' = nav.path
    /\ history' = nav.history
    /\ historyIndex' = nav.index
    /\ UNCHANGED exceptBrowser

\* _on_path_entered (text typed into the path bar), _on_tree_clicked and
\* _on_item_double_clicked on a directory, _on_drive_changed: navigate to
\* the path, for the last three only when it exists
PathEntered(text) ==
    /\ Strip(text) # ""
    /\ Navigated(NavigateTo(currentPath, history, historyIndex, fsDirs,
                            Strip(text)))
    /\ UNCHANGED fsDirs

DirectoryClicked(path) ==
    /\ path \in fsDirs
    /\ Navigated(NavigateTo(currentPath, history, historyIndex, fsDirs, path))
    /\ UNCHANGED fsDirs

\* _go_back: the index is decremented, then the history's entry at the new
\* index is navigated to
GoBack ==
    /\ historyIndex > 0
    /\ Navigated(NavigateTo(currentPath, history, BackIndex(historyIndex),
                            fsDirs, history[BackIndex(historyIndex) + 1]))
    /\ UNCHANGED fsDirs

\* _go_up
GoUp ==
    /\ ParentOf(currentPath) # currentPath
    /\ Navigated(NavigateTo(currentPath, history, historyIndex, fsDirs,
                            ParentOf(currentPath)))
    /\ UNCHANGED fsDirs

\* _go_home
GoHome ==
    /\ Navigated(NavigateTo(currentPath, history, historyIndex, fsDirs,
                            HomeDir))
    /\ UNCHANGED fsDirs

\* _refresh
Refresh ==
    /\ Navigated(NavigateTo(currentPath, history, historyIndex, fsDirs,
                            currentPath))
    /\ UNCHANGED fsDirs

\* _delete_item(path) on a folder of the list view, confirmed: rmtree and
\* _refresh()
DeleteItem(path) ==
    /\ path \in fsDirs /\ path # currentPath /\ ParentOf(path) = currentPath
    /\ fsDirs' = {d \in fsDirs : d # path /\ ParentOf(d) # path}
    /\ Navigated(NavigateTo(currentPath, history, historyIndex, fsDirs',
                            currentPath))

\* _create_folder: makedirs(join(current_path, name)) and _refresh()
CreateFolder(path) ==
    /\ path \notin fsDirs /\ path # currentPath /\ ParentOf(path) = currentPath
    /\ currentPath \in fsDirs
    /\ fsDirs' = fsDirs \cup {path}
    /\ Navigated(NavigateTo(currentPath, history, historyIndex, fsDirs',
                            currentPath))

\* Browsing: the user navigates, goes back, up and home, refreshes, and
\* deletes and creates folders.
NextBrowser ==
    \/ \E text \in Paths \cup {" /h/a ", "  "} : PathEntered(text)
    \/ \E path \in Paths : DirectoryClicked(path)
    \/ GoBack
    \/ GoUp
    \/ GoHome
    \/ Refresh
    \/ \E path \in Paths : DeleteItem(path)
    \/ \E path \in Paths \ {"/x"} : CreateFolder(path)

SpecBrowser == Init /\ [][NextBrowser]_vars

(* --------------------------- ModelSyncManager -------------------------- *)
\* sync(force) with the response of the server and the outcome of
\* _save_cache (saveOk; a failed save leaves the file as it was or
\* unreadable).  The new cache is assigned before it is saved.
Sync(force, r, saveOk) ==
    LET skip == ~force /\ ~NeedsSync(cache, clock)
        fetched == ~skip /\ apiClient
        stored == fetched /\ r.kind # "raise" /\ ValidResponse(r)
                  /\ ~ParseFails(r)
    IN /\ cache' = IF stored THEN CacheFrom(r, clock) ELSE cache
       /\ IF stored /\ saveOk THEN cacheFile' = SavedFile(cache')
          ELSE IF stored THEN cacheFile' \in {cacheFile, CorruptFile}
          ELSE cacheFile' = cacheFile
       /\ syncLast' = [force |-> force, ret |-> skip \/ (stored /\ saveOk),
                       n |-> 1 - syncLast.n]
       /\ UNCHANGED <<apiClient, clock>>
       /\ UNCHANGED exceptSync

\* init_model_sync(api_client): a new manager with the client, which
\* loads the cache file
InitModelSync ==
    /\ apiClient' = TRUE
    /\ cache' = LoadCache(cacheFile)
    /\ UNCHANGED <<cacheFile, clock, syncLast>>
    /\ UNCHANGED exceptSync

\* an hour passes
ClockTick ==
    /\ clock < MaxClock
    /\ clock' = clock + 1
    /\ UNCHANGED <<apiClient, cache, cacheFile, syncLast>>
    /\ UNCHANGED exceptSync

\* Model synchronisation: sync is called, forced or not, with any response
\* of the server, while time passes.
NextSync ==
    \/ \E force \in BOOLEAN, r \in Responses, saveOk \in BOOLEAN :
          Sync(force, r, saveOk)
    \/ InitModelSync
    \/ ClockTick

SpecSync == Init /\ [][NextSync]_vars

(* ------------------------------ ChatWidget ----------------------------- *)
\* what api_client.chat does in ChatWorker.run: it returns a dict, a dict
\* whose tokens_used is not a number, something that is not a dict, or it
\* raises
ChatOutcomes == {"dict", "dict_bad_tokens", "not_dict", "raises"}

\* ChatWorker.run: the result is stamped with response_time_ms and emitted
\* with finished; an exception of chat, of the item assignment on a result
\* that is not a dict, or of the emit is caught and emitted with error
RunEmits(outcome) ==
    IF outcome \in {"dict", "dict_bad_tokens"} THEN <<"finished">>
    ELSE <<"error">>

\* _send_message, "Disable input while processing": setEnabled(False) on
\* the input field and on the send button
EnabledAfterSendKept == TRUE
EnabledAfterSend == FALSE

\* the user edits the text of the input field; Qt delivers key presses and
\* clicks to enabled widgets only
TypeText(text) ==
    /\ ~aborted /\ inputEnabled
    /\ inputText' = text
    /\ UNCHANGED <<inputEnabled, sendEnabled, workers, chatQ, chatHandled,
                   messages, aborted>>
    /\ UNCHANGED exceptChat

\* _send_message, called by Enter in the input field (send_requested) or
\* by a click on the send button; locked is the selected model being
\* tier-restricted, limited the daily request limit being reached.  An
\* empty message, a locked model and a reached limit return before
\* anything is changed.
SendMessage(via, locked, limited) ==
    /\ ~aborted
    /\ IF via = "enter" THEN inputEnabled ELSE sendEnabled
    /\ Len(workers) < MaxChats
    /\ IF inputText = "" \/ locked \/ limited
       THEN UNCHANGED chatVars
       ELSE /\ messages' = Append(messages, "user")
            /\ inputText' = ""
            /\ inputEnabled' = EnabledAfterSend
            /\ sendEnabled' = EnabledAfterSend
            /\ workers' = Append(workers, [pc |-> "run", emitted |-> <<>>])
            /\ UNCHANGED <<chatQ, chatHandled>>
    /\ UNCHANGED aborted
    /\ UNCHANGED exceptChat

\* ChatWorker.run of worker w, in its own thread: the signal is queued
\* for the UI thread
WorkerRun(w, outcome) ==
    /\ ~aborted
    /\ w \in 1..Len(workers) /\ workers[w].pc = "run"
    /\ workers' = [workers EXCEPT ![w] =
                      [pc |-> "done",
                       emitted |-> workers[w].emitted \o RunEmits(outcome)]]
    /\ chatQ' = chatQ \o [i \in 1..Len(RunEmits(outcome)) |->
                             [worker |-> w, sig |-> RunEmits(outcome)[i],
                              outcome |-> outcome]]
    /\ UNCHANGED <<inputEnabled, sendEnabled, inputText, chatHandled,
                   messages, aborted>>
    /\ UNCHANGED exceptChat

\* _on_response(result): both widgets are enabled first; comparing a
\* tokens_used that is not a number raises, and the exception leaves the
\* slot; otherwise the assistant's message is added
OnResponse ==
    /\ ~aborted
    /\ chatQ # <<>> /\ Head(chatQ).sig = "finished"
    /\ inputEnabled' = TRUE
    /\ sendEnabled' = TRUE
    /\ chatQ' = Tail(chatQ)
    /\ chatHandled' = chatHandled \cup {Head(chatQ).worker}
    /\ IF Head(chatQ).outcome = "dict_bad_tokens"
       THEN aborted' = TRUE /\ UNCHANGED messages
       ELSE messages' = Append(messages, "assistant") /\ UNCHANGED aborted
    /\ UNCHANGED <<inputText, workers>>
    /\ UNCHANGED exceptChat

\* _on_error(error): both widgets are enabled and the error is added
OnError ==
    /\ ~aborted
    /\ chatQ # <<>> /\ Head(chatQ).sig = "error"
    /\ inputEnabled' = TRUE
    /\ sendEnabled' = TRUE
    /\ chatQ' = Tail(chatQ)
    /\ chatHandled' = chatHandled \cup {Head(chatQ).worker}
    /\ messages' = Append(messages, "error")
    /\ UNCHANGED <<inputText, workers, aborted>>
    /\ UNCHANGED exceptChat

\* Chatting: the user types and sends, the workers run, and the UI thread
\* handles their signals.
NextChat ==
    \/ \E text \in {"", "hi"} : TypeText(text)
    \/ \E via \in {"enter", "click"}, locked \in BOOLEAN, limited \in BOOLEAN :
          SendMessage(via, locked, limited)
    \/ \E w \in 1..MaxChats, outcome \in ChatOutcomes : WorkerRun(w, outcome)
    \/ OnResponse
    \/ OnError

SpecChat == Init /\ [][NextChat]_vars

(* =============================== claims ================================ *)
Range(seq) == {seq[k] : k \in 1..Len(seq)}

\* the session has a reader and reader.stop() has been called on it
StopCalled(s) == readerPc[s] # "none" /\ ~running[s]

\* the data_ready deliveries queued for session s, decoded, oldest first
RECURSIVE PendingData(_, _)
PendingData(q, s) ==
    IF q = <<>> THEN <<>>
    ELSE IF Head(q).sig = "data" /\ Head(q).sid = s
         THEN <<Decode(Head(q).data)>> \o PendingData(Tail(q), s)
         ELSE PendingData(Tail(q), s)

(* C1, as stated: in every reachable state from construction on the tab    *)
(* collection holds at least one terminal session.                         *)
C1_NeverEmpty == Len(tabs) >= 1

(* C1, amended: once the first terminal has been added (the single-shot    *)
(* timer of the constructor has fired, or a session was created before     *)
(* it), the tab collection holds at least one session in every state,      *)
(* across all new-tab and close-tab actions.                               *)
C1_NeverEmptyAfterFirst == (~timerPending \/ nextId > 1) => Len(tabs) >= 1

\* the only tab was closed and replaced
C1_Witness ==
    /\ uiPc = "idle"
    /\ Len(tabs) = 1
    /\ tabs[1] > 1
    /\ shellOf[1] # "none"
    /\ 1 \notin Range(tabs)

C3_TeardownOrder ==
    /\ [](/\ waitMs <= WaitTimeoutMs
          /\ uiPc = "wait" => StopCalled(uiSid)
          /\ (uiPc = "term" /\ readerPc[uiSid] # "none") =>
                /\ StopCalled(uiSid)
                /\ readerPc[uiSid] = "done" \/ waitMs = WaitTimeoutMs
          /\ uiPc = "remove" =>
                /\ proc[uiSid] # "alive"
                /\ readerPc[uiSid] # "none" => StopCalled(uiSid)
          /\ uiPc \in {"wait", "term", "remove"} =>
                uiIdx \in 1..Len(tabs) /\ tabs[uiIdx] = uiSid)
    /\ [][/\ \A s \in Range(tabs) \ Range(tabs') :
                uiPc = "remove" /\ uiSid = s
          /\ \A s \in Sids :
                (running[s] /\ ~running'[s]) =>
                    uiPc = "idle" /\ uiPc' = "wait" /\ uiSid' = s
          /\ uiPc' = "term" => uiPc \in {"idle", "wait", "term"}
          /\ uiPc' = "remove" => uiPc \in {"term", "remove"}]_vars

\* stop has terminated a process whose reader did not exit within the wait
C3_Witness ==
    /\ uiPc = "remove"
    /\ waitMs = WaitTimeoutMs
    /\ StopCalled(uiSid)
    /\ readerPc[uiSid] = "read"
    /\ proc[uiSid] = "dead"

(* C4: once reader.stop() has been called on a session, no data_ready is   *)
(* emitted by its reader and no data is fed to its screen any more.        *)
C4_NoDataAfterStop ==
    [][\A s \in Sids :
          StopCalled(s) =>
              /\ readLog'[s] = readLog[s]
              /\ fedLog'[s] = fedLog[s]]_vars

(* C5: after reader.stop() the reader loop exits within a bounded delay    *)
(* even when the shell is alive and silent: when the bounded wait that     *)
(* follows the stop signal is over, run has returned.                      *)
C5_ReaderExitsWithinWait ==
    \A s \in Sids :
        (uiPc = "term" /\ uiSid = s /\ StopCalled(s)) => readerPc[s] = "done"

(* C6: when the PTY reaches end-of-stream or the shell exits, the reader   *)
(* emits exactly one exit event, carrying the exit code of the process,    *)
(* and then stops: run has returned exactly when one event was emitted,    *)
(* and afterwards it reads nothing and emits nothing.                      *)
C6_OneExitEvent ==
    /\ [](\A s \in Sids :
            Len(finishedLog[s]) = IF readerPc[s] = "done" THEN 1 ELSE 0)
    /\ [][\A s \in Sids :
            /\ (finishedLog'[s] # finishedLog[s] /\ proc[s] = "dead") =>
                  finishedLog'[s] = Append(finishedLog[s], exitStatus[s][1])
            /\ readerPc[s] = "done" =>
                  /\ readerPc'[s] = "done"
                  /\ finishedLog'[s] = finishedLog[s]
                  /\ readLog'[s] = readLog[s]
                  /\ Len(ptyOut'[s]) >= Len(ptyOut[s])
                  /\ PendingData(evq', s) = PendingData(evq, s)
                        \/ (evq' = Tail(evq) /\ uiPc = "idle")]_vars

\* a shell has exited on its own with a non-zero code, and its reader,
\* never told to stop, has emitted it and returned
C6_Witness ==
    \E s \in Sids :
        /\ readerPc[s] = "done"
        /\ running[s]
        /\ exitStatus[s] = <<1>>
        /\ finishedLog[s] = <<1>>

C8_FedInReadOrder ==
    \A s \in Sids :
        /\ IsPrefix(fedLog[s], readLog[s])
        /\ \A j, k \in 1..Len(fedLog[s]) : j < k => fedLog[s][j][2] < fedLog[s][k][2]

\* the first chunk has been fed while the second, read later, is queued
C8_Witness ==
    \E s \in Sids :
        /\ fedLog[s] = <<StrData(1)>>
        /\ readLog[s] = <<StrData(1), StrData(2)>>
        /\ PendingData(evq, s) = <<StrData(2)>>

(* C9: no screen is mutated, by a feed or by a resize, while a paint of the *)
(* same screen is reading it: feeds, resizes and paints of one screen are  *)
(* all steps of the UI thread, taken one at a time from its event loop.    *)
C9_ScreenAccessSerialized ==
    [][\A s \in Sids :
          /\ (uiPc = "paint" /\ uiSid = s) =>
                fedLog'[s] = fedLog[s] /\ screenDims'[s] = screenDims[s]
          /\ (fedLog'[s] # fedLog[s] \/ screenDims'[s] # screenDims[s]) =>
                uiPc = "idle" /\ uiPc' = "idle"
          /\ (uiPc' = "paint" /\ uiSid' = s /\ uiPc # "paint") =>
                uiPc = "idle" /\ fedLog'[s] = fedLog[s]
                              /\ screenDims'[s] = screenDims[s]]_vars

\* a paint is in progress while the reader has queued more data for the
\* same screen
C9_Witness ==
    /\ uiPc = "paint"
    /\ PendingData(evq, uiSid) # <<>>
    /\ readerPc[uiSid] = "read"

(* C10: with several sessions open a key event reaches only the canvas of  *)
(* the active session: Ctrl+C on an alive active session writes exactly    *)
(* the byte 0x03 to that session's PTY, and no key event writes anything   *)
(* to the PTY of another session.                                          *)
CtrlCEvent == [key |-> "Key_C", ctrl |-> TRUE, text |-> <<3>>]

C10_KeysReachActiveSessionOnly ==
    [][/\ \A ev \in KeyEvents :
             KeyPress(ev) =>
                 \A t \in Sids \ {CurrentSid} : ptyIn'[t] = ptyIn[t]
       /\ (KeyPress(CtrlCEvent) /\ proc[CurrentSid] = "alive") =>
             ptyIn'[CurrentSid] = Append(ptyIn[CurrentSid], <<3>>)
       /\ \A s \in Sids :
             ptyIn'[s] # ptyIn[s] =>
                 /\ HasCurrent /\ s = CurrentSid
                 /\ uiPc = "idle"
                 /\ proc[s] = "alive"
                 /\ Len(ptyIn'[s]) = Len(ptyIn[s]) + 1]_vars

\* two sessions are open and alive, the first is active and has received
\* Ctrl+C, the other has received nothing
C10_Witness ==
    /\ Len(tabs) = 2
    /\ current = 1
    /\ proc[tabs[1]] = "alive"
    /\ proc[tabs[2]] = "alive"
    /\ ptyIn[tabs[1]] = <<(<<3>>)>>
    /\ ptyIn[tabs[2]] = <<>>


\* the input-mapping table of the specification: the writes a key event
\* makes, as byte sequences
C11_Table(ev) ==
    LET k == ev.key IN
    IF ev.ctrl /\ k \in {"Key_C", "Key_D", "Key_Z", "Key_L"}
    THEN <<CASE k = "Key_C" -> <<3>> [] k = "Key_D" -> <<4>>
             [] k = "Key_Z" -> <<26>> [] k = "Key_L" -> <<12>>>>
    ELSE IF k \in {"Key_Return", "Key_Enter"} THEN << <<13>> >>
    ELSE IF k = "Key_Backspace" THEN << <<127>> >>
    ELSE IF k = "Key_Tab" THEN << <<9>> >>
    ELSE IF k = "Key_Escape" THEN << <<27>> >>
    ELSE IF k = "Key_Up" THEN << <<27, 91, 65>> >>
    ELSE IF k = "Key_Down" THEN << <<27, 91, 66>> >>
    ELSE IF k = "Key_Right" THEN << <<27, 91, 67>> >>
    ELSE IF k = "Key_Left" THEN << <<27, 91, 68>> >>
    ELSE IF k = "Key_Home" THEN << <<27, 91, 72>> >>
    ELSE IF k = "Key_End" THEN << <<27, 91, 70>> >>
    ELSE IF k = "Key_PageUp" THEN << <<27, 91, 53, 126>> >>
    ELSE IF k = "Key_PageDown" THEN << <<27, 91, 54, 126>> >>
    ELSE IF k = "Key_Insert" THEN << <<27, 91, 50, 126>> >>
    ELSE IF k = "Key_Delete" THEN << <<27, 91, 51, 126>> >>
    ELSE IF ev.text # <<>> THEN <<ev.text>>
    ELSE <<>>

\* a step in which keyPressEvent handled a key event
KeyHandled == lastKey' # lastKey

(* C11: every key event handled by a session whose shell is alive appends  *)
(* to that session's PTY input exactly the bytes the input-mapping table   *)
(* gives for the event, in at most one write, and writes to no other PTY.  *)
C11_KeyBytesFollowTable ==
    [][KeyHandled /\ proc[CurrentSid] = "alive" =>
         /\ ptyIn'[CurrentSid] = ptyIn[CurrentSid] \o C11_Table(lastKey'.ev)
         /\ Len(ptyIn'[CurrentSid]) <= Len(ptyIn[CurrentSid]) + 1
         /\ \A t \in Sids \ {CurrentSid} : ptyIn'[t] = ptyIn[t]]_vars

C11_Witness ==
    /\ HasCurrent
    /\ proc[CurrentSid] = "alive"
    /\ lastKey.ev.key = "Key_PageUp"
    /\ ptyIn[CurrentSid] = << <<27, 91, 53, 126>> >>

\* the session was created and has no running shell: the shell has exited,
\* or start did not get a process
Inert(s) == shellOf[s] # "none" /\ proc[s] \in {"dead", "none"}

(* C12: once a session's shell has exited or was never started, no step    *)
(* (key event, resize event or any other) writes to its PTY, changes the   *)
(* PTY's size, gives the session a process again or raises an error, and   *)
(* its tab leaves the collection only in the removal step of _close_tab    *)
(* for that tab.                                                           *)
C12_DeadSessionInert ==
    [][\A s \in Sids : Inert(s) =>
         /\ ptyIn'[s] = ptyIn[s]
         /\ ptyDims'[s] = ptyDims[s]
         /\ proc'[s] = proc[s]
         /\ aborted' = aborted
         /\ s \in Range(tabs) /\ s \notin Range(tabs')
              => uiPc = "remove" /\ uiSid = s]_vars

\* the only session ever created has a dead shell, and after the shell's
\* exit it has handled a key event with text and a resize to a new size
C12_Witness ==
    /\ tabs = <<1>>
    /\ nextId = 2
    /\ proc[1] = "dead"
    /\ lastKey.ev.key = "Key_X"
    /\ ptyIn[1] = <<>>
    /\ resizes > 0
    /\ dims[1] # ptyDims[1]

\* a step in which _add_terminal ran with winpty present and start got no
\* process: PtyProcess.spawn failed
FailedAdd == nextId' = nextId + 1 /\ hasWinpty /\ proc'[nextId] = "none"

(* C13: when launching the shell or allocating the pseudo-terminal fails   *)
(* while a terminal is added, no tab is created: the tab collection after  *)
(* the add is the collection before it (for the replacement made by        *)
(* _close_tab: the collection after the removal).                          *)
C13_FailedAddCreatesNoTab ==
    [][FailedAdd =>
         tabs' = (IF uiPc = "remove" THEN RemoveAt(tabs, uiIdx) ELSE tabs)]_vars

\* rows and cols as the resize contract states them
C14_Rows(px) == IF px.h \div CharHeight >= 24 THEN px.h \div CharHeight ELSE 24
C14_Cols(px) == IF px.w \div CharWidth >= 80 THEN px.w \div CharWidth ELSE 80

\* a step in which the canvas of session s got a new pixel size
Resized(s) == pixels'[s] # pixels[s]

(* C14: after every change of a canvas's pixel size its rows are           *)
(* max(24, height div charHeight) and its cols max(80, width div           *)
(* charWidth); when that differs from the dimensions before, the screen is *)
(* resized to (rows, cols) and so is an alive PTY, otherwise neither is    *)
(* touched; and in every state the canvas, its screen and its alive PTY    *)
(* have the same dimensions.                                               *)
C14_DimensionsAgree ==
    /\ [](\A s \in Sids :
            /\ screenDims[s] = dims[s]
            /\ proc[s] = "alive" => ptyDims[s] = dims[s])
    /\ [][\A s \in Sids : Resized(s) =>
            LET nd == <<C14_Rows(pixels'[s]), C14_Cols(pixels'[s])>> IN
            /\ dims'[s] = nd
            /\ IF nd # dims[s]
               THEN /\ screenDims'[s] = nd
                    /\ proc[s] = "alive" => ptyDims'[s] = nd
               ELSE /\ screenDims'[s] = screenDims[s]
                    /\ ptyDims'[s] = ptyDims[s]]_vars

\* a session with a running shell was resized below the minimum: it has the
\* minimum dimensions, and so have its screen and its PTY
C14_Witness ==
    \E s \in Sids :
        /\ proc[s] = "alive"
        /\ pixels[s] = [w |-> 640, h |-> 400]
        /\ dims[s] = <<24, 80>>
        /\ screenDims[s] = <<24, 80>>
        /\ ptyDims[s] = <<24, 80>>

\* the screen is a grid of scr.lines rows of scr.columns cells
GridShaped ==
    /\ Len(scr.buffer) = scr.lines
    /\ \A r \in 1..scr.lines : Len(scr.buffer[r]) = scr.columns

OnlyPrintablesFed == \A k \in 1..Len(scrLog) : scrLog[k][1] = "char"

\* the text rows that n characters take on lines of width cols, and how
\* many of them no longer fit on the screen
TextRows(n, cols) == (n + cols - 1) \div cols
ScrolledOff(n, lines, cols) == Max(0, TextRows(n, cols) - lines)

(* C16: printable characters fed into a fresh screen fill it left to       *)
(* right and top to bottom, wrapping after cols characters and scrolling   *)
(* by one row (top row discarded, blank row at the bottom) each time the   *)
(* last row is full and another character arrives; every cell not written  *)
(* is blank with the default colour.                                       *)
C16_PrintablesFillInOrder ==
    OnlyPrintablesFed =>
        /\ scr.lines = ScrLines /\ scr.columns = ScrCols
        /\ GridShaped
        /\ \A r \in 0..(scr.lines - 1), c \in 0..(scr.columns - 1) :
             LET n == Len(scrLog)
                 k == (r + ScrolledOff(n, scr.lines, scr.columns)) * scr.columns + c
             IN scr.buffer[r + 1][c + 1] =
                  IF k < n THEN [data |-> scrLog[k + 1][2], fg |-> StrVal("default")]
                  ELSE DefaultChar

\* one character more than the screen holds was fed: it has scrolled once
C16_Witness ==
    /\ OnlyPrintablesFed
    /\ Len(scrLog) = ScrLines * ScrCols + 1
    /\ scr.buffer[ScrLines][1].data = scrLog[Len(scrLog)][2]
    /\ scr.buffer[1][1].data = scrLog[ScrCols + 1][2]

\* a step that fed one printable character, and that character
CharFed ==
    /\ Len(scrLog') = Len(scrLog) + 1
    /\ scrLog'[Len(scrLog')][1] = "char"
FedChar == [data |-> scrLog'[Len(scrLog')][2], fg |-> scr.fg]

\* the cursor stands on the last cell of the screen
AtLastCell == scr.y = scr.lines - 1 /\ scr.x = scr.columns - 1
\* the cursor stands past the last cell of the screen: the wrap is pending
PastLastCell == scr.y = scr.lines - 1 /\ scr.x = scr.columns

RoundTripSizes == (1..(ScrLines + 1)) \X (1..(ScrCols + 1))

(* C18: resizing the screen from (r1,c1) to any (r2,c2) and back to        *)
(* (r1,c1) preserves every cell of the top-left min(r1,r2) x min(c1,c2)    *)
(* region, whatever the screen holds.                                      *)
C18_ResizeRoundTripKeepsTopLeft ==
    \A sz \in RoundTripSizes :
        sz # <<scr.lines, scr.columns>> =>
        LET back == Resize(Resize(scr, sz[1], sz[2]), scr.lines, scr.columns)
        IN \A r \in 1..Min(scr.lines, sz[1]), c \in 1..Min(scr.columns, sz[2]) :
             back.buffer[r][c] = scr.buffer[r][c]

\* the characters of a run of "char" tokens, as cells with default colour,
\* padded with blanks to a line of the screen
LineOf(toks) ==
    [c \in 1..scr.columns |->
        IF c <= Len(toks) THEN [data |-> toks[c][2], fg |-> StrVal("default")]
        ELSE DefaultChar]

\* what was fed is A, "\r", "\n", B with A the first i tokens, A and B
\* printable and shorter than a line
FedTwoLines(i) ==
    /\ i + 2 <= Len(scrLog)
    /\ scrLog[i + 1] = <<"cr">> /\ scrLog[i + 2] = <<"lf">>
    /\ \A k \in 1..Len(scrLog) : k \notin {i + 1, i + 2} => scrLog[k][1] = "char"
    /\ i < scr.columns /\ Len(scrLog) - (i + 2) < scr.columns

\* "Hello\r\nWorld" fed into a fresh screen of 24 lines and 80 columns
HelloWorld ==
    <<<<"char", "H">>, <<"char", "e">>, <<"char", "l">>, <<"char", "l">>,
      <<"char", "o">>, <<"cr">>, <<"lf">>, <<"char", "W">>, <<"char", "o">>,
      <<"char", "r">>, <<"char", "l">>, <<"char", "d">>>>
HelloWorldFed ==
    LET s == FeedAll(Screen(80, 24), HelloWorld) IN
    /\ s.y = 1 /\ s.x = 5
    /\ \A c \in 1..80 :
         /\ s.buffer[1][c].data = IF c <= 5 THEN HelloWorld[c][2] ELSE " "
         /\ s.buffer[2][c].data = IF c <= 5 THEN HelloWorld[c + 7][2] ELSE " "

(* C19: feeding A, carriage return, line feed, B into a fresh screen, for  *)
(* printable strings A and B shorter than a line, puts A in row 0 and B in *)
(* row 1, both from column 0, and leaves the cursor at (1, len(B)); and    *)
(* "Hello\r\nWorld" in a fresh 24x80 screen leaves "Hello" and "World" in  *)
(* columns 0..4 of rows 0 and 1 and the cursor at (1, 5).                  *)
C19_TwoLinesLandInRows ==
    /\ scrLog = <<>> => HelloWorldFed
    /\ \A i \in 0..Len(scrLog) :
         FedTwoLines(i) =>
            /\ scr.buffer[1] = LineOf(SubSeq(scrLog, 1, i))
            /\ scr.buffer[2] = LineOf(SubSeq(scrLog, i + 3, Len(scrLog)))
            /\ scr.y = 1
            /\ scr.x = Len(scrLog) - (i + 2)

\* A = "ab" and B = "ba" were fed with "\r\n" between them
C19_Witness ==
    /\ scrLog = <<<<"char", "a">>, <<"char", "b">>, <<"cr">>, <<"lf">>,
                  <<"char", "b">>, <<"char", "a">>>>
    /\ scr.buffer[1][1].data = "a" /\ scr.buffer[2][1].data = "b"
    /\ scr.y = 1 /\ scr.x = 2

\* the code of the Select Graphic Rendition sequence fed last (0: none, or
\* a reset)
RECURSIVE LastSgr(_)
LastSgr(log) ==
    IF log = <<>> THEN 0
    ELSE IF log[Len(log)][1] = "sgr" THEN log[Len(log)][2]
    ELSE LastSgr(SubSeq(log, 1, Len(log) - 1))

(* C20: a cell written while SGR foreground code 30+n is in force is       *)
(* painted with entry n of the 16-colour table, and a cell written after a *)
(* reset (or before any SGR) with the default foreground: after ESC[31m,   *)
(* "Red", ESC[0m, "Normal" the cells of "Red" are painted with entry 1     *)
(* (red) and those of "Normal" with the default foreground.                *)
C20_SgrColourPainted ==
    [][CharFed =>
         LET n == LastSgr(scrLog)
             written == scr'.buffer[scr'.y + 1][scr'.x]
         IN PaintFg(written) = IF n \in 30..37 THEN Colors16[n - 30 + 1]
                               ELSE "#cccccc"]_vars


(* ------------------------------- C21 ----------------------------------- *)
\* C21: whatever bytes are delivered to a session (invalid UTF-8,
\* unrecognised, malformed or truncated escape sequences, text pyte raises
\* on), _on_data never lets an exception out (the application is never
\* aborted by it), and every chunk delivered afterwards is decoded and fed
\* to the screen like any other.
C21_DataNeverRaises ==
    /\ [](~aborted)
    /\ [][dataLog' # dataLog =>
            LET d == dataLog'[Len(dataLog')]
            IN /\ ~aborted'
               /\ Len(dataLog') = Len(dataLog) + 1
               /\ d.text = DecodeReplace(d.data)
               /\ ~d.raised =>
                     scr' = StreamFeed(stream, scr, d.text).s]_vars

\* an invalid byte inside an escape sequence was delivered, then pyte
\* raised on a chunk, and the text delivered after that is on the screen
C21_Witness ==
    /\ Len(dataLog) = 3
    /\ dataLog[1].data = <<27, 255>>
    /\ dataLog[2].raised
    /\ dataLog[3].data = <<97>> /\ ~dataLog[3].raised
    /\ \E r \in 1..scr.lines : \E c \in 1..scr.columns :
          scr.buffer[r][c].data = "a"


(* ------------------------------- C22 ----------------------------------- *)
\* the reader objects bound to the PTY object p
ReadersOf(p) == {r \in Sids : readerPty[r] = p}

\* C22: in every reachable state each started PTY session has exactly one
\* reader bound to its PTY, which is the session's own reader; each reader
\* is bound to one PTY and belongs to one session; and no step rebinds a
\* session's PTY, its reader, or a reader's PTY.
C22_OneReaderPerSession ==
    /\ [](\A s \in Sids :
            /\ (proc[s] # "none") = (ptyOf[s] # 0)
            /\ (readerPc[s] # "none") = (readerOf[s] # 0)
            /\ (ptyOf[s] # 0) = (readerOf[s] # 0)
            /\ ptyOf[s] # 0 =>
                  /\ ReadersOf(ptyOf[s]) = {readerOf[s]}
                  /\ \A u \in Sids \ {s} :
                        ptyOf[u] # ptyOf[s] /\ readerOf[u] # readerOf[s])
    /\ [][\A s \in Sids :
            /\ ptyOf[s] # 0 => ptyOf'[s] = ptyOf[s] /\ readerOf'[s] = readerOf[s]
            /\ readerPty[s] # 0 => readerPty'[s] = readerPty[s]]_vars

\* two sessions were started, the first one's tab is closed and its reader
\* has finished, and the second one's reader is reading
C22_Witness ==
    /\ ptyOf[1] # 0 /\ ptyOf[2] # 0
    /\ tabs = <<2>>
    /\ readerPc[1] = "done"
    /\ readerPc[2] = "read"


(* ------------------------------- C24 ----------------------------------- *)
\* a step of a new-tab action: the single-shot timer, the CMD button and the
\* replacement in _close_tab create a session; the "+" button is the one
\* handler that ends in an exception
PlusAction == aborted' /\ ~aborted
NewTabAction == nextId' # nextId \/ PlusAction

\* the shell each new-tab action is meant to start
RequestedShell ==
    IF PlusAction THEN "powershell.exe"
    ELSE IF timerPending' # timerPending THEN "powershell.exe"
    ELSE IF uiPc = "remove" THEN "powershell.exe"
    ELSE "cmd.exe"

\* C24: every new-tab action (initial timer, "+", "CMD", replacement after
\* the last tab was closed) appends exactly one session at the end of the
\* tab order, makes it the active tab and starts the shell asked for.
C24_NewTabActionAppendsSession ==
    [][NewTabAction =>
         LET base == IF uiPc = "remove" THEN RemoveAt(tabs, uiIdx) ELSE tabs
         IN /\ tabs' = Append(base, nextId)
            /\ current' = Len(tabs')
            /\ shellOf'[nextId] = RequestedShell]_vars

(* ------------------------------- C25 ----------------------------------- *)
\* the exit event of s has been emitted and handled, and stop() was never
\* called on its reader: the reader left its loop because the shell exited
ExitHandled(s) ==
    /\ finishedLog[s] # <<>>
    /\ running[s]
    /\ \A k \in 1..Len(evq) : evq[k].sid # s

\* C25: every chunk the shell wrote to the PTY before it exited has been
\* fed to the session's screen by the time its exit event is out: nothing
\* is left unread in the PTY and everything read was fed.
C25_NoOutputLostAtExit ==
    \A s \in Sids :
        ExitHandled(s) => ptyOut[s] = <<>> /\ Len(fedLog[s]) = Produced(s)


(* ------------------------------- C23 ----------------------------------- *)
\* a register call with replace=False has just returned
RegisteredNoReplace == smLast' # smLast /\ smLast'.op = "register"
                         /\ ~smLast'.replace

\* C23: register with replace=False returns False and leaves the registry
\* (and the Qt shortcuts) unchanged when the normalized key sequence is
\* already registered for the same context; in every other case it returns
\* True and the registry maps the key sequence to the new shortcut.
C23_RegisterConflict ==
    [][RegisteredNoReplace =>
         LET c == smLast'
             old == shortcuts[c.key]
         IN IF old # NoShortcut /\ old.context = c.context
            THEN /\ ~c.ret
                 /\ shortcuts' = shortcuts
                 /\ qtShortcuts' = qtShortcuts
            ELSE /\ c.ret
                 /\ shortcuts'[c.key] =
                      [key_sequence |-> c.key, callback |-> c.callback,
                       context |-> c.context, description |-> c.description,
                       enabled |-> TRUE]
                 /\ \A k \in NormKeys \ {c.key} :
                       shortcuts'[k] = shortcuts[k]]_vars

\* register("ctrl+t", g, TERMINAL) has just been refused: Ctrl+T is still
\* the TERMINAL shortcut for f
C23_Witness ==
    /\ smLast.op = "register" /\ ~smLast.replace /\ ~smLast.ret
    /\ smLast.key = "Ctrl+T" /\ smLast.callback = "g"
    /\ shortcuts["Ctrl+T"].callback = "f"
    /\ shortcuts["Ctrl+T"].context = "TERMINAL"

(* ------------------------------- C26 ----------------------------------- *)
\* C26: registering a key sequence (replace=False) for one context never
\* removes or replaces the shortcut registered under the same key sequence
\* for a different context: a key event with that key sequence coming from
\* a widget of the old context invokes the same callback as before.
C26_OtherContextKept ==
    [][(/\ RegisteredNoReplace
        /\ shortcuts[smLast'.key] # NoShortcut
        /\ shortcuts[smLast'.key].context # smLast'.context) =>
         LET k == smLast'.key
             ctx == shortcuts[k].context
         IN KeyEventCallback(shortcuts', blocked', k, ctx) =
              KeyEventCallback(shortcuts, blocked, k, ctx)]_vars


(* ------------------------------- C27 ----------------------------------- *)
\* C27: after any sequence of add_widget, set_active, set_active_by_widget
\* and clear_active at most one managed frame is active, and a managed
\* frame is active if and only if its name is the manager's active name.
C27_OneActiveFrame ==
    /\ Cardinality({k \in 1..Len(frames) : frameActive[frames[k].frame]}) <= 1
    /\ \A k \in 1..Len(frames) :
          frameActive[frames[k].frame] = (activeName = <<frames[k].name>>)


(* ------------------------------- C28 ----------------------------------- *)
\* C28: after any sequence of navigation operations, including ones whose
\* target does not exist, a non-empty history has 0 <= history index <
\* history length and its entry at the index is the current path; a
\* navigation to a path that does not exist leaves current path, history
\* and history index unchanged.
C28_HistoryMatchesCurrentPath ==
    history # <<>> =>
        /\ 0 <= historyIndex /\ historyIndex < Len(history)
        /\ history[historyIndex + 1] = currentPath


(* ------------------------------- C29 ----------------------------------- *)
\* C29: whenever sync returns False (no API client, invalid response,
\* request exception, failure while parsing or saving the result), the
\* in-memory cache (tier, models, categories, sync timestamp) is exactly
\* what it was before the call.
C29_FailedSyncKeepsCache ==
    [][(syncLast' # syncLast /\ ~syncLast'.ret) => cache' = cache]_vars


\* C30: per ChatWidget at most one chat request is in flight: from a send
\* until its response or error has been handled the input field and the send
\* button are disabled and no second ChatWorker is started; every
\* ChatWorker run emits exactly one of finished or error, and once it has
\* been handled the input field and the send button are enabled again.
InFlight == {w \in 1..Len(workers) : w \notin chatHandled}
QueuedFor(w) == {i \in 1..Len(chatQ) : chatQ[i].worker = w}
C30_OneRequestInFlight ==
    /\ Cardinality(InFlight) <= 1
    /\ InFlight # {} => ~inputEnabled /\ ~sendEnabled
    /\ InFlight = {} => inputEnabled /\ sendEnabled
    /\ \A w \in 1..Len(workers) :
          /\ workers[w].pc = "run" =>
                workers[w].emitted = <<>> /\ QueuedFor(w) = {}
                /\ w \notin chatHandled
          /\ workers[w].pc = "done" =>
                /\ workers[w].emitted \in {<<"finished">>, <<"error">>}
                /\ Cardinality(QueuedFor(w))
                      = (IF w \in chatHandled THEN 0 ELSE 1)
C30_Witness ==
    /\ Len(workers) >= 2
    /\ chatHandled = {1, 2}
    /\ workers[1].emitted = <<"finished">>
    /\ workers[2].emitted = <<"error">>
    /\ inputEnabled /\ sendEnabled /\ ~aborted
=============================================================================
